---- MODULE Spec2Model ----
(***************************************************************************)
(* A state-machine model of the LattiCS simulation core:                   *)
(*   Simulation   (core.py / core/_simulation.py)                          *)
(*   Agent        (core/_agent.py)                                         *)
(*   UpdateInfo   (core/_updateinfo.py)                                    *)
(*   Event        (core/_event.py)                                         *)
(*   HomogeneousSpace, Lattice2DSpace (spaces.py)                          *)
(*   FixedIncrementCellCycleModel, BaseModel (models.py)                   *)
(*   bresenham_2d, displacement_trial_2d, ... (numba_functions.py)         *)
(*                                                                         *)
(* Agent objects live in `objects` (a handle is an index into it); the     *)
(* lists of the program hold handles.  Times are integer milliseconds.     *)
(* An exception raised by the program is recorded in `raised` and ends the *)
(* handler at the statement that raised it, with the state written so far. *)
(***************************************************************************)
EXTENDS Integers, Sequences, FiniteSets, TLC

VARIABLES
    time,          \* Simulation._time
    agents,        \* Simulation._agents   (sequence of handles)
    events,        \* Simulation._events   (sequence of Event records)
    models,        \* Simulation._models   (sequence of model records)
    history,       \* Simulation._history  (one entry per snapshot)
    space,         \* Simulation._space    (record, kind "none" when unset)
    objects,       \* every Agent constructed so far, by handle
    heap,          \* every SubstrateInfo object made so far, by address
    id_count,      \* Agent.id_count
    run,           \* the frame of Simulation.run (pc, i, steps, dt, ...)
    log,           \* the work done so far in the current tick, in order
    init_calls,    \* initialize_attributes invocations, per model and agent
    update_calls,  \* update_attributes invocations in the current run
    exec_calls,    \* handler invocations, per event
    raised         \* the exception the last call ended with, or "none"

vars == <<time, agents, events, models, history, space, objects, heap, id_count,
          run, log, init_calls, update_calls, exec_calls, raised>>

----------------------------------------------------------------------------
(* Bounds of the exploration.                                              *)

MaxAgents == 3      \* Agent objects constructed by the user
MaxObjects == 5     \* Agent objects in all, clones included
MaxModels == 2      \* models registered
MaxEvents == 2      \* events registered
MaxRuns == 2        \* calls of Simulation.run
MaxTime == 4        \* largest run length (ms)
MaxDt == 2          \* largest time step (ms)
MaxInterval == 3    \* largest update interval (ms)
MaxOps == 4         \* calls made by the user besides run
MaxDue == 2         \* latest due time of an event (ms)
CycleLength == 2    \* the cell cycle length of the division scenario (ms)
Capacity == 2       \* the volume of the homogeneous space
Nx == 3             \* lattice columns
Ny == 2             \* lattice rows
GridSpacing == 2     \* grid_spacing of the lattice

----------------------------------------------------------------------------
(* Generic helpers.                                                        *)

Range(s) == {s[i] : i \in 1..Len(s)}

\* a removal that moves the last element into the place of x
RemoveBySwap(s, x) ==
    LET i == CHOOSE k \in 1..Len(s) : s[k] = x /\ \A j \in 1..(k-1) : s[j] # x
    IN  [k \in 1..(Len(s) - 1) |-> IF k = i THEN s[Len(s)] ELSE s[k]]

\* list.remove(x): the first occurrence only
RemoveFirst(s, x) ==
    LET i == CHOOSE k \in 1..Len(s) : s[k] = x /\ \A j \in 1..(k-1) : s[j] # x
    IN  SubSeq(s, 1, i-1) \o SubSeq(s, i+1, Len(s))

\* every ordering np.random.shuffle can give a copy of list s
Shuffles(s) ==
    LET n == Len(s)
    IN  { [i \in 1..n |-> s[p[i]]] :
            p \in {q \in [1..n -> 1..n] : \A i, j \in 1..n : q[i] = q[j] => i = j} }

CeilDiv(a, b) == (a + b - 1) \div b

\* floating-point values in exact arithmetic: <<n, d>> is the fraction n/d in
\* lowest terms with d > 0, and <<0, 0>> is a value that is not finite (nan,
\* inf or -inf: what numpy gives a division by zero, and every operation on
\* such a value gives such a value again in the expressions modelled here)
NonFinite == <<0, 0>>

Gcd(a, b) ==
    LET RECURSIVE G(_, _)
        G(x, y) == IF y = 0 THEN x ELSE G(y, x % y)
    IN  G(IF a < 0 THEN -a ELSE a, IF b < 0 THEN -b ELSE b)

Float(n, d) ==
    IF d = 0 THEN NonFinite
    ELSE LET g == Gcd(n, d)
             s == IF d < 0 THEN -1 ELSE 1
         IN  <<(s * n) \div g, (s * d) \div g>>

IsFinite(x) == x[2] # 0

FAdd(x, y) ==
    IF IsFinite(x) /\ IsFinite(y) THEN Float(x[1] * y[2] + y[1] * x[2], x[2] * y[2])
    ELSE NonFinite

FSub(x, y) == FAdd(x, <<-y[1], y[2]>>)

FMul(x, y) ==
    IF IsFinite(x) /\ IsFinite(y) THEN Float(x[1] * y[1], x[2] * y[2]) ELSE NonFinite

\* x / y of numpy scalars: a division by zero gives a value that is not finite
FDiv(x, y) ==
    IF IsFinite(x) /\ IsFinite(y) THEN Float(x[1] * y[2], x[2] * y[1]) ELSE NonFinite

----------------------------------------------------------------------------
(* Agent (core/_agent.py).  `has` is the key set of Agent._attributes;     *)
(* `none` names the attributes whose value is None.                        *)

AttrNames == {"division_pending", "division_completed", "remove_pending",
              "volume", "position", "motility", "binding_affinity",
              "displacement_limit", "substrate_info", "cellcycle_is_active",
              "cellcycle_mean_length", "cellcycle_length",
              "cellcycle_current_time", "state"}

NoAttributes ==
    [has |-> {}, none |-> {},
     division_pending |-> FALSE, division_completed |-> FALSE,
     remove_pending |-> FALSE, volume |-> 0, position |-> <<0, 0>>,
     motility |-> 0, binding_affinity |-> 0, displacement_limit |-> 0,
     substrate_info |-> <<>>, cellcycle_is_active |-> FALSE,
     cellcycle_mean_length |-> 0, cellcycle_length |-> 0,
     cellcycle_current_time |-> 0, state |-> ""]

\* an agent whose id is not taken from the class counter
Agent_first_id(idc) == [id |-> 0, attributes |-> NoAttributes]

\* Agent.__init__ with _initialize_id: the id is the class counter
Agent(idc) == [id |-> idc, attributes |-> NoAttributes]

has_attribute(a, name) == name \in a.attributes.has

set_attribute(a, name, value) ==
    [a EXCEPT !.attributes =
        [@ EXCEPT ![name] = value, !.has = @ \cup {name}, !.none = @ \ {name}]]

set_attribute_none(a, name) ==
    [a EXCEPT !.attributes =
        [@ EXCEPT ![name] = NoAttributes[name],
                  !.has = @ \cup {name}, !.none = @ \cup {name}]]

get_attribute(a, name) == a.attributes[name]

\* `if not agent.has_attribute(n): agent.set_attribute(n, v)`
SetDefault(a, name, value) ==
    IF has_attribute(a, name) THEN a ELSE set_attribute(a, name, value)

\* keyword arguments of a call: `has` names the keywords given
NoParams == NoAttributes

Param(p, name, default) == IF name \in p.has THEN p[name] ELSE default

----------------------------------------------------------------------------
(* The world: everything a nested call can change.  Two fields belong to   *)
(* the call alone: draws, the outcomes of its random draws, and handed,    *)
(* the elapsed times it has passed to the updates of models and fields.    *)

World ==
    [agents |-> agents, events |-> events, models |-> models, space |-> space,
     objects |-> objects, heap |-> heap, id_count |-> id_count, log |-> log,
     init_calls |-> init_calls, update_calls |-> update_calls,
     exec_calls |-> exec_calls, raised |-> "none", draws |-> {}, handed |-> <<>>]

Raise(w, exc) == [w EXCEPT !.raised = exc]

Ok(w) == w.raised = "none"

\* a local variable: F applied to the value v
With(v, F(_)) == F(v)

\* sequencing: the statements F follow the statements that led to w unless
\* an exception has ended the call
Then(w, F(_)) == IF Ok(w) THEN F(w) ELSE w

Store(w) ==
    /\ agents' = w.agents
    /\ events' = w.events
    /\ models' = w.models
    /\ space' = w.space
    /\ objects' = w.objects
    /\ heap' = w.heap
    /\ id_count' = w.id_count
    /\ log' = w.log
    /\ init_calls' = w.init_calls
    /\ update_calls' = w.update_calls
    /\ exec_calls' = w.exec_calls
    /\ raised' = w.raised

----------------------------------------------------------------------------
(* UpdateInfo (core/_updateinfo.py).                                       *)

\* a missing interval (None) is stored as 0
UpdateInfo(update_interval) ==
    [update_interval |-> update_interval, elapsed_time |-> 0]

\* a clock that is due only after the interval has been exceeded
update_needed_strict(ui) == ui.update_interval < ui.elapsed_time

update_needed(ui) == ui.update_interval <= ui.elapsed_time

increase_time(ui, msecs) == [ui EXCEPT !.elapsed_time = @ + msecs]

reset_time(ui) == [ui EXCEPT !.elapsed_time = 0]

----------------------------------------------------------------------------
(* Spaces (spaces.py).  A cell of agent_layer holds a handle, or 0 (None). *)

Cells == (0..(Nx-1)) \X (0..(Ny-1))

Handles == 1..MaxObjects

ModelIds == 1..MaxModels

\* the keys a substrate_info dictionary can have, in a fixed order
SubstrateNames == <<"oxygen", "glucose">>

\* the _dynamic_nodes list of every substrate field: empty
NoDynamicNodes == [n \in {SubstrateNames[i] : i \in DOMAIN SubstrateNames} |-> <<>>]

\* substrates holds the keys of _substrates, dynamic_nodes the _dynamic_nodes
\* list of each of these fields, concentration its _concentration (a value
\* in the homogeneous space, an array over the cells in the lattice) and
\* float64 the homogeneous fields whose _concentration is a numpy scalar
NoSpace ==
    [kind |-> "none", agents |-> <<>>, agent_layer |-> [c \in Cells |-> 0],
     volume |-> 0, has_free_volume |-> TRUE, grid_spacing |-> GridSpacing,
     agent_update_info |-> UpdateInfo(0),
     substrate_update_info |-> UpdateInfo(0),
     substrates |-> {}, dynamic_nodes |-> NoDynamicNodes,
     concentration |-> [n \in DOMAIN NoDynamicNodes |-> Float(0, 1)],
     float64 |-> {}]

\* `self._substrates[name] = substrate`: a new field without nodes, with
\* `self._concentration = 0.0`, or `np.zeros(...)` in the lattice; the
\* diffusion and decay coefficients keep their defaults, 0.0
add_substrate(sp, name) ==
    [sp EXCEPT !.substrates = @ \cup {name}, !.dynamic_nodes[name] = <<>>,
               !.concentration[name] = IF sp.kind = "lattice2d"
                                       THEN [c \in Cells |-> Float(0, 1)]
                                       ELSE Float(0, 1),
               !.float64 = @ \ {name}]

HomogeneousSpace(volume, dt_agent, dt_substrate) ==
    [NoSpace EXCEPT !.kind = "homogeneous", !.volume = volume,
                    !.agent_update_info = UpdateInfo(dt_agent),
                    !.substrate_update_info = UpdateInfo(dt_substrate)]

Lattice2DSpace(dt_agent, dt_substrate) ==
    [NoSpace EXCEPT !.kind = "lattice2d",
                    !.agent_update_info = UpdateInfo(dt_agent),
                    !.substrate_update_info = UpdateInfo(dt_substrate)]

is_valid_position(position) ==
    /\ 0 <= position[1] /\ position[1] < Nx
    /\ 0 <= position[2] /\ position[2] < Ny

is_empty_position(sp, position) == sp.agent_layer[position] = 0

get_total_agent_volume(w) ==
    LET RECURSIVE Sum(_)
        Sum(i) == IF i = 0 THEN 0
                  ELSE get_attribute(w.objects[w.space.agents[i]], "volume") + Sum(i-1)
    IN  Sum(Len(w.space.agents))

HomogeneousSpace_initialize_attributes(a, volume) ==
    LET a1 == SetDefault(a, "division_pending", FALSE)
        a2 == SetDefault(a1, "division_completed", FALSE)
        a3 == SetDefault(a2, "remove_pending", FALSE)
    IN  SetDefault(a3, "volume", volume)

\* the capacity check only warns
HomogeneousSpace_add_agent(w, h, p) ==
    LET volume == Param(p, "volume", 0)
        w1 == [w EXCEPT !.space.agents = Append(@, h)]
    IN  [w1 EXCEPT !.objects[h] = HomogeneousSpace_initialize_attributes(@, volume)]

HomogeneousSpace_remove_agent(w, h) ==
    IF h \notin Range(w.space.agents) THEN Raise(w, "ValueError")
    ELSE With([w EXCEPT !.space.agents = RemoveFirst(@, h)], LAMBDA w1 :
             IF get_total_agent_volume(w1) <= w1.space.volume
             THEN [w1 EXCEPT !.space.has_free_volume = TRUE]
             ELSE w1)

Lattice2DSpace_initialize_attributes(a, position, volume, p) ==
    LET a1 == SetDefault(a, "division_pending", FALSE)
        a2 == SetDefault(a1, "division_completed", FALSE)
        a3 == SetDefault(a2, "remove_pending", FALSE)
        a4 == SetDefault(a3, "volume", volume)
        a5 == SetDefault(a4, "position", position)
        a6 == SetDefault(a5, "motility", Param(p, "motility", 0))
        a7 == SetDefault(a6, "binding_affinity", Param(p, "binding_affinity", 0))
    IN  SetDefault(a7, "displacement_limit", Param(p, "displacement_limit", 1))

Lattice2DSpace_add_agent(w, h, p) ==
    IF "position" \notin p.has THEN Raise(w, "TypeError")
    ELSE IF ~is_valid_position(p.position) THEN Raise(w, "ValueError")
    ELSE IF ~is_empty_position(w.space, p.position) THEN Raise(w, "ValueError")
    ELSE LET volume == Param(p, "volume", 0)
             w1 == [w EXCEPT !.space.agents = Append(@, h),
                             !.space.agent_layer[p.position] = h]
         IN  [w1 EXCEPT !.objects[h] =
                 Lattice2DSpace_initialize_attributes(@, p.position, volume, p)]

Lattice2DSpace_remove_agent(w, h) ==
    IF ~has_attribute(w.objects[h], "position") THEN Raise(w, "KeyError")
    ELSE IF h \notin Range(w.space.agents) THEN Raise(w, "ValueError")
    ELSE LET position == get_attribute(w.objects[h], "position")
         IN  [w EXCEPT !.space.agents = RemoveFirst(@, h),
                       !.space.agent_layer[position] = 0]

Space_add_agent(w, h, p) ==
    IF w.space.kind = "lattice2d" THEN Lattice2DSpace_add_agent(w, h, p)
    ELSE HomogeneousSpace_add_agent(w, h, p)

Space_remove_agent(w, h) ==
    IF w.space.kind = "lattice2d" THEN Lattice2DSpace_remove_agent(w, h)
    ELSE HomogeneousSpace_remove_agent(w, h)

----------------------------------------------------------------------------
(* Models (models.py).  A model record is [id, kind, update_info]; kind is *)
(* "base" (BaseModel), "cellcycle" (FixedIncrementCellCycleModel with      *)
(* distribution 'fixed') or "toxicity" (ConcentrationDependentToxicityModel *)
(* for 'oxygen' with a positive max_rate and a positive                    *)
(* median_effective_concentration).                                        *)

Model(id, kind, update_interval) ==
    [id |-> id, kind |-> kind, update_info |-> UpdateInfo(update_interval)]

\* distribution 'fixed'
generate_cellcycle_length(mean_length) == mean_length

\* `if not agent.has_attribute(n): agent.set_attribute(n, None)`
SetDefaultNone(a, name) ==
    IF has_attribute(a, name) THEN a ELSE set_attribute_none(a, name)

\* the keyword arguments of initialize_attributes that the model reads
CellCycle_read_params(a, p) ==
    With(IF "cellcycle_mean_length" \in p.has
         THEN set_attribute(
                  set_attribute(a, "cellcycle_mean_length", p.cellcycle_mean_length),
                  "cellcycle_length", generate_cellcycle_length(p.cellcycle_mean_length))
         ELSE a, LAMBDA a1 :
    IF "cellcycle_current_time" \in p.has
    THEN set_attribute(a1, "cellcycle_current_time", p.cellcycle_current_time)
    ELSE a1)

CellCycle_initialize_attributes(a, p) ==
    LET a1 == SetDefault(a, "cellcycle_is_active", TRUE)
        a2 == SetDefaultNone(a1, "cellcycle_mean_length")
        a3 == SetDefaultNone(a2, "cellcycle_length")
        a4 == SetDefault(a3, "cellcycle_current_time", 0)
        a5 == SetDefault(a4, "division_pending", FALSE)
        a6 == SetDefault(a5, "division_completed", FALSE)
    IN  CellCycle_read_params(a6, p)

initialize_attributes(m, a, p) ==
    IF m.kind = "cellcycle" THEN CellCycle_initialize_attributes(a, p) ELSE a

----------------------------------------------------------------------------
(* Simulation.add_agent / remove_agent / add_model / add_event / add_space *)

\* `for m in self._models: m.initialize_attributes(agent, **params)`
InitializeByModels(w, h, p) ==
    LET RECURSIVE Go(_, _)
        Go(v, i) ==
            IF i > Len(v.models) THEN v
            ELSE LET m == v.models[i]
                 IN  Go([v EXCEPT !.objects[h] = initialize_attributes(m, @, p),
                                  !.init_calls[<<m.id, h>>] = @ + 1], i + 1)
    IN  Go(w, 1)

\* `for par_name, par_value in params.items(): if not has: set`
StoreParams(a, p) ==
    LET names == p.has \ a.attributes.has
    IN  [a EXCEPT !.attributes =
            [f \in DOMAIN a.attributes |->
                IF f = "has" THEN a.attributes.has \cup names
                ELSE IF f = "none" THEN a.attributes.none
                ELSE IF f \in names THEN p[f]
                ELSE a.attributes[f]]]

\* `warnings.warn('No simulation domain has been defined. ...')`
Warn(w, h) == [w EXCEPT !.log = Append(@, <<"warning", 0, h>>)]

\* an add_agent that refuses the agent when no space is installed
Simulation_add_agent_strict(w, h, p) ==
    IF w.space.kind = "none" THEN Raise(w, "AttributeError")
    ELSE Then(Space_add_agent([w EXCEPT !.agents = Append(@, h)], h, p), LAMBDA w2 :
         [InitializeByModels(w2, h, p) EXCEPT !.objects[h] = StoreParams(@, p)])

Simulation_add_agent(w, h, p) ==
    Then(IF w.space.kind # "none"
         THEN Space_add_agent([w EXCEPT !.agents = Append(@, h)], h, p)
         ELSE Warn([w EXCEPT !.agents = Append(@, h)], h), LAMBDA w2 :
    [InitializeByModels(w2, h, p) EXCEPT !.objects[h] = StoreParams(@, p)])

\* a remove_agent that leaves the agent in the space
Simulation_remove_agent_from_list(w, h) ==
    IF h \notin Range(w.agents) THEN Raise(w, "ValueError")
    ELSE [w EXCEPT !.agents = RemoveFirst(@, h)]

Simulation_remove_agent(w, h) ==
    IF h \notin Range(w.agents) THEN Raise(w, "ValueError")
    ELSE IF w.space.kind # "none"
    THEN Space_remove_agent([w EXCEPT !.agents = RemoveFirst(@, h)], h)
    ELSE [w EXCEPT !.agents = RemoveFirst(@, h)]

Simulation_add_model(w, m) == [w EXCEPT !.models = Append(@, m)]

Simulation_add_event(w, e) == [w EXCEPT !.events = Append(@, e)]

\* an add_space that replaces the installed space
Simulation_add_space_overwrite(w, sp) == [w EXCEPT !.space = sp]

Simulation_add_space(w, sp) ==
    IF w.space.kind # "none" THEN Raise(w, "AttributeError")
    ELSE [w EXCEPT !.space = sp]

\* a clone that starts with an empty attribute dictionary
clone_without_attributes(w, h) ==
    [w EXCEPT !.objects = Append(@, Agent(w.id_count)), !.id_count = @ + 1]

\* a SubstrateInfo dataclass instance with its defaults
SubstrateInfo(type) ==
    [type |-> type, concentration |-> Float(0, 1), passive_rate |-> 0,
     uptake_rate |-> 0, release_rate |-> 0]

Keys(d) == SelectSeq(SubstrateNames, LAMBDA n : n \in DOMAIN d)

Index(s, x) == CHOOSE i \in 1..Len(s) : s[i] = x

\* copy.deepcopy(attributes): plain values are copied as they are, and every
\* SubstrateInfo the substrate_info dictionary refers to is copied into a
\* new object that the copy refers to
deepcopy(attributes, hp) ==
    [attributes |->
        [attributes EXCEPT !.substrate_info =
            IF DOMAIN @ = {} THEN @
            ELSE [n \in DOMAIN @ |-> Len(hp) + Index(Keys(attributes.substrate_info), n)]],
     heap |->
        hp \o [i \in 1..Len(Keys(attributes.substrate_info)) |->
                  hp[attributes.substrate_info[Keys(attributes.substrate_info)[i]]]]]

\* a clone whose attributes are copy.copy(self._attributes): the dictionary
\* entries still refer to the original's SubstrateInfo objects
clone_shallow(w, h) ==
    [w EXCEPT !.objects = Append(@, [Agent(w.id_count) EXCEPT
                                        !.attributes = w.objects[h].attributes]),
              !.id_count = @ + 1]

\* Agent.clone: a new object with a fresh id and a deep copy of the attributes
clone(w, h) ==
    With(deepcopy(w.objects[h].attributes, w.heap), LAMBDA c :
        [w EXCEPT !.objects = Append(@, [Agent(w.id_count) EXCEPT
                                            !.attributes = c.attributes]),
                  !.heap = c.heap,
                  !.id_count = @ + 1])

----------------------------------------------------------------------------
(* Lattice kernels (numba_functions.py).                                   *)

Abs(x) == IF x < 0 THEN 0 - x ELSE x

\* a line drawn without its last cell: the loops only
bresenham_2d_open(x1, y1, x2, y2) ==
    LET dx == Abs(x2 - x1)
        dy == Abs(y2 - y1)
        sx == IF x1 < x2 THEN 1 ELSE 0 - 1
        sy == IF y1 < y2 THEN 1 ELSE 0 - 1
        RECURSIVE AlongX(_, _, _, _)
        AlongX(x, y, error, path) ==
            IF x = x2 THEN path
            ELSE LET e == error - dy
                 IN  AlongX(x + sx, IF e < 0 THEN y + sy ELSE y,
                            IF e < 0 THEN e + dx ELSE e, Append(path, <<x, y>>))
        RECURSIVE AlongY(_, _, _, _)
        AlongY(x, y, error, path) ==
            IF y = y2 THEN path
            ELSE LET e == error - dx
                 IN  AlongY(IF e < 0 THEN x + sx ELSE x, y + sy,
                            IF e < 0 THEN e + dy ELSE e, Append(path, <<x, y>>))
    IN  IF dy < dx THEN AlongX(x1, y1, dx \div 2, <<>>)
        ELSE AlongY(x1, y1, dy \div 2, <<>>)

\* the path as a sequence of cells; path[1] is the code's path[0]
bresenham_2d(x1, y1, x2, y2) ==
    LET dx == Abs(x2 - x1)
        dy == Abs(y2 - y1)
        sx == IF x1 < x2 THEN 1 ELSE 0 - 1
        sy == IF y1 < y2 THEN 1 ELSE 0 - 1
        RECURSIVE AlongX(_, _, _, _)
        AlongX(x, y, error, path) ==
            IF x = x2 THEN Append(path, <<x2, y2>>)
            ELSE LET e == error - dy
                 IN  AlongX(x + sx, IF e < 0 THEN y + sy ELSE y,
                            IF e < 0 THEN e + dx ELSE e, Append(path, <<x, y>>))
        RECURSIVE AlongY(_, _, _, _)
        AlongY(x, y, error, path) ==
            IF y = y2 THEN Append(path, <<x2, y2>>)
            ELSE LET e == error - dx
                 IN  AlongY(IF e < 0 THEN x + sx ELSE x, y + sy,
                            IF e < 0 THEN e + dy ELSE e, Append(path, <<x, y>>))
    IN  IF dy < dx THEN AlongX(x1, y1, dx \div 2, <<>>)
        ELSE AlongY(x1, y1, dy \div 2, <<>>)

get_neighborhood_2d(type) ==
    IF type = "von_neumann"
    THEN << <<0-1, 0>>, <<1, 0>>, <<0, 0-1>>, <<0, 1>> >>
    ELSE << <<0-1, 0-1>>, <<0-1, 0>>, <<0-1, 1>>, <<0, 0-1>>,
            <<0, 1>>, <<1, 0-1>>, <<1, 0>>, <<1, 1>> >>

\* the integer square root of a perfect square
Sqrt(x) == CHOOSE r \in 0..x : r * r = x

\* np.Inf for two agents on one cell is never summed: a neighbour is another cell
pairwise_interaction_energy_2d(position_one, binding_aff_one, position_two, binding_aff_two) ==
    LET distance == Abs(position_one[1] - position_two[1])
                    + Abs(position_one[2] - position_two[2])
    IN  IF distance = 1 THEN 0 - Sqrt(binding_aff_one * binding_aff_two) ELSE 0

\* idx_array holds 0 for the code's -1 and i for the code's index i-1
total_interaction_energy_2d(idx, agent_pos, bind_affs, agent_idx_array) ==
    LET neighborhood == get_neighborhood_2d("moore")
        RECURSIVE Sum(_)
        Sum(i) ==
            IF i = 0 THEN 0
            ELSE LET neighbor_pos == <<agent_pos[1] + neighborhood[i][1],
                                       agent_pos[2] + neighborhood[i][2]>>
                 IN  Sum(i - 1)
                     + (IF is_valid_position(neighbor_pos)
                           /\ agent_idx_array[neighbor_pos] # 0
                        THEN pairwise_interaction_energy_2d(
                                 agent_pos, bind_affs[idx], neighbor_pos,
                                 bind_affs[agent_idx_array[neighbor_pos]])
                        ELSE 0)
    IN  Sum(Len(neighborhood))

\* st = [positions, idx_array, change_flags]
displace_agent_2d(st, idx, new_position) ==
    LET old_position == st.positions[idx]
        cleared == [c \in Cells |-> IF c = old_position THEN 0 ELSE st.idx_array[c]]
    IN  [positions |-> [i \in DOMAIN st.positions |->
                          IF i = idx THEN new_position ELSE st.positions[i]],
         idx_array |-> [c \in Cells |-> IF c = new_position THEN idx ELSE cleared[c]],
         change_flags |-> st.change_flags]

\* the states one trial of agent idx can end in: one per neighbour drawn and,
\* when the energy rises, per outcome of the Metropolis draw
\* the Metropolis draw: a move that does not raise the energy is always
\* accepted, one that raises it is accepted or undone
MetropolisDraw(moved, idx, current_pos, difference) ==
    {[moved EXCEPT !.change_flags = [i \in DOMAIN @ |-> i = idx \/ @[i]]]}
    \cup (IF difference <= 0 THEN {}
          ELSE {displace_agent_2d(moved, idx, current_pos)})

TrialTowards(idx, st, binding_affs, current_pos, current_energy, target_pos) ==
    IF is_valid_position(target_pos) /\ st.idx_array[target_pos] = 0
    THEN With(displace_agent_2d(st, idx, target_pos), LAMBDA moved :
             MetropolisDraw(moved, idx, current_pos,
                 total_interaction_energy_2d(idx, target_pos, binding_affs,
                                             moved.idx_array)
                 - current_energy))
    ELSE {st}

\* the states one trial of agent idx can end in: one per neighbour drawn and,
\* when the energy rises, per outcome of the Metropolis draw
displacement_trial_2d(idx, st, binding_affs) ==
    LET neighborhood == get_neighborhood_2d("von_neumann")
    IN  With(total_interaction_energy_2d(idx, st.positions[idx], binding_affs,
                                         st.idx_array), LAMBDA current_energy :
        UNION { TrialTowards(idx, st, binding_affs, st.positions[idx], current_energy,
                             <<st.positions[idx][1] + neighborhood[n_idx][1],
                               st.positions[idx][2] + neighborhood[n_idx][2]>>)
                : n_idx \in 1..Len(neighborhood) })

----------------------------------------------------------------------------
(* Lattice2DSpace.update and its trials (spaces.py).  The operators return *)
(* the set of worlds the random draws can lead to.  A division that would  *)
(* construct more than MaxObjects objects is outside the exploration and    *)
(* yields no world.                                                        *)

Position(w, h) == get_attribute(w.objects[h], "position")

\* idx_array[pos] = i for each agent in order: the last agent written to a
\* cell is the one the array keeps
IdxArray(positions) ==
    [c \in Cells |->
        LET at == {i \in 1..Len(positions) : positions[i] = c}
        IN  IF at = {} THEN 0 ELSE CHOOSE i \in at : \A j \in at : j <= i]

\* the exchange of the two cells in agent_layer and of the position attributes
SwapCells(v, pos_new, pos_old, agent_new, agent_old) ==
    LET v1 == [v EXCEPT !.space.agent_layer =
                  [c \in Cells |-> IF c = pos_old THEN agent_new
                                   ELSE IF c = pos_new THEN agent_old
                                   ELSE @[c]]]
        v2 == IF agent_new # 0
              THEN [v1 EXCEPT !.objects[agent_new] = set_attribute(@, "position", pos_old)]
              ELSE v1
    IN  IF agent_old # 0
        THEN [v2 EXCEPT !.objects[agent_old] = set_attribute(@, "position", pos_new)]
        ELSE v2

\* `for i, cflag in enumerate(change_flags): if cflag: ...`
ApplyChanges(w, ags, st) ==
    LET RECURSIVE Apply(_, _)
        Apply(v, i) ==
            IF i > Len(ags) THEN v
            ELSE IF ~st.change_flags[i] THEN Apply(v, i + 1)
            ELSE Apply(SwapCells(v, st.positions[i], Position(v, ags[i]),
                                 v.space.agent_layer[st.positions[i]],
                                 v.space.agent_layer[Position(v, ags[i])]), i + 1)
    IN  Apply(w, 1)

\* the trials of the agents in the order ags
TrialsInOrder(w, ags, dt) ==
    LET n == Len(ags)
        positions == [i \in 1..n |-> Position(w, ags[i])]
        binding_affs == [i \in 1..n |->
                            get_attribute(w.objects[ags[i]], "binding_affinity")]
        RECURSIVE Trials(_)
        Trials(i) ==
            IF i = 0
            THEN {[positions |-> positions, idx_array |-> IdxArray(positions),
                   change_flags |-> [k \in 1..n |-> FALSE]]}
            ELSE UNION { {st} \cup
                         (IF get_attribute(w.objects[ags[i]], "motility") * dt > 0
                          THEN displacement_trial_2d(i, st, binding_affs)
                          ELSE {})
                         : st \in Trials(i - 1) }
    IN  {ApplyChanges(w, ags, st) : st \in Trials(n)}

Lattice2DSpace_displacement_trials(w, dt) ==
    IF w.space.agents = <<>> THEN {w}
    ELSE UNION {TrialsInOrder(w, ags, dt) : ags \in Shuffles(w.space.agents)}

SquaredDistance(a, b) == (a[1] - b[1]) * (a[1] - b[1]) + (a[2] - b[2]) * (a[2] - b[2])

\* the push along the path, from the far end towards the mother
PushAlongPath(w, path) ==
    LET RECURSIVE Push(_, _)
        Push(v, i) ==
            IF i < 2 \/ ~Ok(v) THEN v
            ELSE LET agent_to_move == v.space.agent_layer[path[i]]
                     v1 == [v EXCEPT !.space.agent_layer[path[i + 1]] = agent_to_move]
                 IN  IF agent_to_move = 0 THEN Raise(v1, "AttributeError")
                     ELSE Push([v1 EXCEPT !.objects[agent_to_move] =
                                   set_attribute(@, "position", path[i + 1])], i - 1)
    IN  IF Len(path) > 2 THEN Push(w, Len(path) - 1) ELSE w

\* the mother keeps its cell; the clone is added at path[1] of the code
PlaceClone(w, h, clone_position) ==
    With(clone([w EXCEPT !.space.agent_layer[clone_position] = 0,
                         !.objects[h] = set_attribute(
                             set_attribute(@, "division_pending", FALSE),
                             "division_completed", TRUE)], h), LAMBDA w3 :
    Simulation_add_agent(
        [w3 EXCEPT !.objects[Len(w3.objects)] =
            set_attribute(@, "position", clone_position)],
        Len(w3.objects),
        [NoParams EXCEPT !.has = {"position"}, !.position = clone_position]))

DivideTowards(w, h, path) ==
    With(PushAlongPath(w, path), LAMBDA w1 :
    IF ~Ok(w1) THEN {w1}
    ELSE IF Len(path) < 2 THEN {Raise(w1, "IndexError")}
    ELSE IF Len(w1.objects) >= MaxObjects THEN {}
    ELSE {PlaceClone(w1, h, path[2])})

\* the smallest squared distance from position to an empty cell
MinDistance2(position, empty) ==
    CHOOSE d \in {SquaredDistance(position, c) : c \in empty} :
        \A c \in empty : d <= SquaredDistance(position, c)

Lattice2DSpace_perform_cell_division(w, h) ==
    LET current_position == Position(w, h)
        displacement_limit == get_attribute(w.objects[h], "displacement_limit")
        empty == {c \in Cells : w.space.agent_layer[c] = 0}
    IN  IF empty = {} THEN {w}
        ELSE With(MinDistance2(current_position, empty), LAMBDA min_distance2 :
             IF ~(min_distance2 <= displacement_limit * displacement_limit) THEN {w}
             ELSE UNION { DivideTowards(w, h,
                              bresenham_2d(current_position[1], current_position[2],
                                           target_position[1], target_position[2]))
                          : target_position \in
                              {c \in empty :
                                  SquaredDistance(current_position, c) = min_distance2} })

Lattice2DSpace_cell_division_trials(w) ==
    LET Results(agents_temp) ==
            LET RECURSIVE Go(_)
                Go(i) ==
                    IF i = 0 THEN {w}
                    ELSE UNION { IF Ok(v) /\ get_attribute(v.objects[agents_temp[i]],
                                                           "division_pending")
                                 THEN Lattice2DSpace_perform_cell_division(v, agents_temp[i])
                                 ELSE {v}
                                 : v \in Go(i - 1) }
            IN  Go(Len(agents_temp))
    IN  UNION {Results(s) : s \in Shuffles(w.space.agents)}

RemoveIfPending(v, h) ==
    IF Ok(v) /\ get_attribute(v.objects[h], "remove_pending")
    THEN Simulation_remove_agent(v, h)
    ELSE v

Lattice2DSpace_cell_removal_trials(w) ==
    LET Results(agents_temp) ==
            LET RECURSIVE Go(_)
                Go(i) == IF i = 0 THEN w
                         ELSE RemoveIfPending(Go(i - 1), agents_temp[i])
            IN  Go(Len(agents_temp))
    IN  {Results(s) : s \in Shuffles(w.space.agents)}

\* `for s in self._substrates.values(): s.clear_dynamic_nodes()`
clear_substrate_dynamic_nodes(w) == [w EXCEPT !.space.dynamic_nodes = NoDynamicNodes]

\* `for i in info.keys(): self._substrates[i].add_dynamic_substrate_node(a)`
AddDynamicNodes(w, h) ==
    LET keys == Keys(get_attribute(w.objects[h], "substrate_info"))
        RECURSIVE Go(_)
        Go(i) == IF i = 0 THEN w
                 ELSE Then(Go(i - 1), LAMBDA v :
                      IF keys[i] \notin v.space.substrates THEN Raise(v, "KeyError")
                      ELSE [v EXCEPT !.space.dynamic_nodes[keys[i]] = Append(@, h)])
    IN  Go(Len(keys))

\* `info = a.get_attribute('substrate_info')`
ReadSubstrateInfo(v, h) ==
    IF ~has_attribute(v.objects[h], "substrate_info") THEN Raise(v, "KeyError") ELSE v

\* `for a in self._agents: info = a.get_attribute('substrate_info'); ...`
RegisterDynamicNodes(w) ==
    LET RECURSIVE Go(_)
        Go(i) == IF i = 0 THEN clear_substrate_dynamic_nodes(w)
                 ELSE Then(Go(i - 1), LAMBDA v :
                      Then(ReadSubstrateInfo(v, v.space.agents[i]), LAMBDA v1 :
                           AddDynamicNodes(v1, v.space.agents[i])))
    IN  Go(Len(w.space.agents))

\* the field value at the location of node h
FieldValue(sp, n, h, os) ==
    IF sp.kind = "lattice2d" THEN sp.concentration[n][get_attribute(os[h], "position")]
    ELSE sp.concentration[n]

\* `self._concentration = c`, or `self._concentration[*pos] = c` in the lattice
SetFieldValue(w, n, h, c) ==
    IF w.space.kind = "lattice2d"
    THEN [w EXCEPT !.space.concentration[n][get_attribute(w.objects[h], "position")] = c]
    ELSE [w EXCEPT !.space.concentration[n] = c]

\* `dn = (k_p * (c_f_cur - c_n_cur) + k_u * c_f_cur - k_r * c_n_cur) * dt`
Flux(info, c_f_cur, dt) ==
    FMul(FSub(FAdd(FMul(Float(info.passive_rate, 1), FSub(c_f_cur, info.concentration)),
                   FMul(Float(info.uptake_rate, 1), c_f_cur)),
              FMul(Float(info.release_rate, 1), info.concentration)),
         Float(dt, 1))

\* the flux branch of update_nodes for node h of field n; the quotients
\* dn / v_n and dn / v_f raise when the divisor is 0 and dn is a Python
\* float, which it is as long as the homogeneous field holds the float it
\* was constructed with, and are not finite when dn is a numpy scalar
update_flux_node(w, n, h, dt) ==
    LET ref == get_attribute(w.objects[h], "substrate_info")[n]
        v_n == get_attribute(w.objects[h], "volume")
        v_f == IF w.space.kind = "lattice2d" THEN w.space.grid_spacing * w.space.grid_spacing
               ELSE w.space.volume
        c_f_cur == FieldValue(w.space, n, h, w.objects)
        dn == Flux(w.heap[ref], c_f_cur, dt)
    IN  IF (v_n = 0 \/ v_f = 0) /\ w.space.kind = "homogeneous" /\ n \notin w.space.float64
        THEN Raise(w, "ZeroDivisionError")
        ELSE SetFieldValue(
                 [w EXCEPT !.heap[ref].concentration = FAdd(@, FDiv(dn, Float(v_n, 1)))],
                 n, h, FSub(c_f_cur, FDiv(dn, Float(v_f, 1))))

NodeType(w, n, h) == w.heap[get_attribute(w.objects[h], "substrate_info")[n]].type

\* `for n in all_nodes:` of either update_nodes, without what the homogeneous
\* field does after the loop; the lattice field reads `info.concentrattion`
\* of a fixed node
UpdateNodesInOrder(w, n, dt) ==
    LET nodes == w.space.dynamic_nodes[n]
        RECURSIVE Go(_)
        Go(i) == IF i = 0 THEN w
                 ELSE Then(Go(i - 1), LAMBDA v :
                      IF NodeType(v, n, nodes[i]) = "flux"
                      THEN update_flux_node(v, n, nodes[i], dt)
                      ELSE IF NodeType(v, n, nodes[i]) = "fixed" /\ v.space.kind = "lattice2d"
                      THEN Raise(v, "AttributeError")
                      ELSE v)
    IN  Go(Len(nodes))

\* `if 0 < count_fixed: self._concentration = sum_fixed / count_fixed`
MeanOfFixed(w, n) ==
    LET nodes == w.space.dynamic_nodes[n]
        fixed == {i \in DOMAIN nodes : NodeType(w, n, nodes[i]) = "fixed"}
        RECURSIVE Sum(_)
        Sum(i) == IF i = 0 THEN Float(0, 1)
                  ELSE IF i \in fixed
                       THEN FAdd(Sum(i - 1), w.heap[get_attribute(w.objects[nodes[i]],
                                                        "substrate_info")[n]].concentration)
                       ELSE Sum(i - 1)
    IN  IF fixed = {} THEN w
        ELSE [w EXCEPT !.space.concentration[n] =
                           FDiv(Sum(Len(nodes)), Float(Cardinality(fixed), 1))]

\* update_nodes of the field of substrate n
update_nodes(w, n, dt) ==
    IF w.space.kind = "lattice2d" THEN UpdateNodesInOrder(w, n, dt)
    ELSE Then(UpdateNodesInOrder(w, n, dt), LAMBDA v : MeanOfFixed(v, n))

\* the solver of the lattice field for D = 0 and k = 0, the coefficients of
\* every field here: neither diffusion nor decay changes the array
diffusion_solver_lod_2d(C) == C

\* diffusion_decay of the field of substrate n: `C * np.exp(-d * dt)` with
\* d = 0 is C as a numpy scalar
diffusion_decay(w, n) ==
    IF w.space.kind = "lattice2d"
    THEN [w EXCEPT !.space.concentration[n] = diffusion_solver_lod_2d(@)]
    ELSE [w EXCEPT !.space.float64 = @ \cup {n}]

\* `for s in self._substrates.values(): s.update(elapsed_time)`
UpdateFields(w) ==
    LET names == SelectSeq(SubstrateNames, LAMBDA n : n \in w.space.substrates)
        RECURSIVE Go(_)
        Go(i) == IF i = 0 THEN w
                 ELSE Then(Go(i - 1), LAMBDA v :
                      Then(update_nodes(
                               [v EXCEPT !.handed = Append(@,
                                    <<"field", names[i], 0,
                                      v.space.substrate_update_info.elapsed_time>>)],
                               names[i], v.space.substrate_update_info.elapsed_time),
                           LAMBDA v1 : diffusion_decay(v1, names[i])))
    IN  Go(Len(names))

UpdateSubstrates(w) ==
    IF Ok(w) /\ update_needed(w.space.substrate_update_info)
    THEN Then(UpdateFields(w), LAMBDA v :
             [v EXCEPT !.space.substrate_update_info = reset_time(@)])
    ELSE w

\* the clocks are increased before they are read
IncreaseClocks(w, dt) ==
    [w EXCEPT !.space.agent_update_info = increase_time(@, dt),
              !.space.substrate_update_info = increase_time(@, dt)]

ResetAgentClock(w) == [w EXCEPT !.space.agent_update_info = reset_time(@)]

Lattice2DSpace_mechanics(w0) ==
    LET moved == Lattice2DSpace_displacement_trials(
                     w0, w0.space.agent_update_info.elapsed_time)
        divided == UNION {Lattice2DSpace_cell_division_trials(v) : v \in moved}
        removed == UNION {IF Ok(v) THEN Lattice2DSpace_cell_removal_trials(v)
                          ELSE {v} : v \in divided}
    IN  { Then(Then(v, RegisterDynamicNodes), ResetAgentClock) : v \in removed }

Lattice2DSpace_update(w, dt) ==
    With(IncreaseClocks(w, dt), LAMBDA w0 :
    IF update_needed(w0.space.agent_update_info)
    THEN {UpdateSubstrates(v) : v \in Lattice2DSpace_mechanics(w0)}
    ELSE {UpdateSubstrates(w0)})

----------------------------------------------------------------------------
(* HomogeneousSpace.update (spaces.py).                                    *)

CloneAndAdd(w1, h) ==
    With(clone(w1, h), LAMBDA w2 : Simulation_add_agent(w2, Len(w2.objects), NoParams))

HomogeneousSpace_process_agent_division(w, h) ==
    IF ~w.space.has_free_volume THEN {w}
    ELSE IF get_total_agent_volume(w) + get_attribute(w.objects[h], "volume")
            <= w.space.volume
    THEN IF Len(w.objects) >= MaxObjects THEN {}
         ELSE {CloneAndAdd([w EXCEPT !.objects[h] = set_attribute(
                                set_attribute(@, "division_pending", FALSE),
                                "division_completed", TRUE)], h)}
    ELSE {[w EXCEPT !.space.has_free_volume = FALSE]}

RemoveAndRegister(v, h) ==
    IF ~Ok(v) THEN v
    ELSE With(IF get_attribute(v.objects[h], "remove_pending")
              THEN Simulation_remove_agent(v, h)
              ELSE v, LAMBDA v1 :
         Then(Then(v1, LAMBDA v2 : ReadSubstrateInfo(v2, h)), LAMBDA v3 :
              AddDynamicNodes(v3, h)))

\* one pass of `for a in list(self._agents)`
HomogeneousSpace_process_agent(w, h) ==
    { RemoveAndRegister(v, h) :
        v \in IF get_attribute(w.objects[h], "division_pending")
              THEN HomogeneousSpace_process_agent_division(w, h)
              ELSE {w} }

HomogeneousSpace_mechanics(w0) ==
    LET snapshot == w0.space.agents
        RECURSIVE Go(_)
        Go(i) == IF i = 0 THEN {clear_substrate_dynamic_nodes(w0)}
                 ELSE UNION { IF Ok(v) THEN HomogeneousSpace_process_agent(v, snapshot[i])
                              ELSE {v} : v \in Go(i - 1) }
    IN  { Then(v, ResetAgentClock) : v \in Go(Len(snapshot)) }

HomogeneousSpace_update(w, dt) ==
    With(IncreaseClocks(w, dt), LAMBDA w0 :
    IF update_needed(w0.space.agent_update_info)
    THEN {UpdateSubstrates(v) : v \in HomogeneousSpace_mechanics(w0)}
    ELSE {UpdateSubstrates(w0)})

Space_update(w, dt) ==
    IF w.space.kind = "lattice2d" THEN Lattice2DSpace_update(w, dt)
    ELSE HomogeneousSpace_update(w, dt)

----------------------------------------------------------------------------
(* FixedIncrementCellCycleModel.update_attributes / reset_attributes.      *)
(* get_attribute of a missing key raises KeyError; None <= int raises      *)
(* TypeError.  The result is a world, for the exception to be recorded.    *)

\* `length = self._generate_cellcycle_length(mean_length)` and its storing
CellCycle_new_length(w1, h) ==
    IF ~has_attribute(w1.objects[h], "cellcycle_mean_length") THEN Raise(w1, "KeyError")
    ELSE IF "cellcycle_mean_length" \in w1.objects[h].attributes.none
    THEN [w1 EXCEPT !.objects[h] = set_attribute_none(@, "cellcycle_length")]
    ELSE [w1 EXCEPT !.objects[h] = set_attribute(@, "cellcycle_length",
             generate_cellcycle_length(get_attribute(@, "cellcycle_mean_length")))]

\* a reset that leaves the two division flags as they are
CellCycle_reset_without_flags(w, h) ==
    LET a1 == set_attribute(w.objects[h], "cellcycle_is_active", TRUE)
        a2 == set_attribute(a1, "cellcycle_current_time", 0)
    IN  CellCycle_new_length([w EXCEPT !.objects[h] = a2], h)

CellCycle_reset_attributes(w, h) ==
    LET a1 == set_attribute(w.objects[h], "cellcycle_is_active", TRUE)
        a2 == set_attribute(a1, "cellcycle_current_time", 0)
        a3 == set_attribute(a2, "division_pending", FALSE)
        a4 == set_attribute(a3, "division_completed", FALSE)
    IN  CellCycle_new_length([w EXCEPT !.objects[h] = a4], h)

\* the comparison with the cycle length, after the time has been stored
CellCycle_compare(w2, h, updated_time) ==
    IF ~has_attribute(w2.objects[h], "cellcycle_length") THEN Raise(w2, "KeyError")
    ELSE IF "cellcycle_length" \in w2.objects[h].attributes.none
    THEN Raise(w2, "TypeError")
    ELSE IF get_attribute(w2.objects[h], "cellcycle_length") <= updated_time
    THEN [w2 EXCEPT !.objects[h] = set_attribute(@, "division_pending", TRUE)]
    ELSE w2

CellCycle_store_time(w1, h, updated_time) ==
    CellCycle_compare(
        [w1 EXCEPT !.objects[h] = set_attribute(@, "cellcycle_current_time", updated_time)],
        h, updated_time)

\* `if agent.get_attribute('cellcycle_is_active'):` and its body
CellCycle_advance(w1, m, h) ==
    IF ~Ok(w1) THEN w1
    ELSE IF ~has_attribute(w1.objects[h], "cellcycle_is_active") THEN Raise(w1, "KeyError")
    ELSE IF ~get_attribute(w1.objects[h], "cellcycle_is_active") THEN w1
    ELSE IF ~has_attribute(w1.objects[h], "cellcycle_current_time")
    THEN Raise(w1, "KeyError")
    ELSE CellCycle_store_time(w1, h,
             get_attribute(w1.objects[h], "cellcycle_current_time")
             + m.update_info.elapsed_time)

CellCycle_update_attributes(w, m, h) ==
    IF ~has_attribute(w.objects[h], "division_completed") THEN Raise(w, "KeyError")
    ELSE CellCycle_advance(IF get_attribute(w.objects[h], "division_completed")
                           THEN CellCycle_reset_attributes(w, h) ELSE w, m, h)

\* `prob = 1 - np.exp(-rate * dt)` is positive: the rate is positive for a
\* positive concentration (of the concentrations that are not negative), and
\* dt is the elapsed time of the model's clock
Toxicity_positive_prob(w, m, h) ==
    LET x == w.heap[get_attribute(w.objects[h], "substrate_info").oxygen].concentration
    IN  IsFinite(x) /\ x[1] > 0 /\ m.update_info.elapsed_time > 0

\* ConcentrationDependentToxicityModel.update_attributes; w.draws holds the
\* agents for which np.random.random() is below a positive prob in this pass
Toxicity_update_attributes(w, m, h) ==
    IF ~has_attribute(w.objects[h], "substrate_info") THEN Raise(w, "KeyError")
    ELSE IF "oxygen" \notin DOMAIN get_attribute(w.objects[h], "substrate_info")
    THEN Raise(w, "KeyError")
    ELSE IF Toxicity_positive_prob(w, m, h) /\ h \in w.draws
    THEN [w EXCEPT !.objects[h] =
             set_attribute(set_attribute(set_attribute(set_attribute(set_attribute(@,
                 "state", "necrotic"), "cellcycle_is_active", FALSE),
                 "division_pending", FALSE), "motility", 0), "binding_affinity", 0)]
    ELSE w

\* the call m.update_attributes(agent h) is recorded with the elapsed time
\* that m.update_info shows during the call
Called(w, m, h) ==
    [w EXCEPT !.update_calls[<<m.id, h>>] = @ + 1,
              !.log = Append(@, <<"model", m.id, h>>),
              !.handed = Append(@, <<"model", m.id, h, m.update_info.elapsed_time>>)]

update_attributes(w, m, h) ==
    IF m.kind = "cellcycle" THEN CellCycle_update_attributes(Called(w, m, h), m, h)
    ELSE IF m.kind = "toxicity" THEN Toxicity_update_attributes(Called(w, m, h), m, h)
    ELSE Called(w, m, h)

----------------------------------------------------------------------------
(* Events (core/_event.py) and the two passes of a tick                    *)
(* (Simulation._update_events, Simulation._update_models).                 *)

NoCalls == [invoked |-> 0, returned |-> 0]

Event(id, due, handler, params) ==
    [id |-> id, time |-> due, handler |-> handler, params |-> params]

\* an event that is ready one millisecond before it is due
is_ready_early(e, current_time) == e.time <= current_time + 1

is_ready(e, current_time) == e.time <= current_time

\* the handlers the exploration registers; exec_calls counts, per event, the
\* invocations of the handler and its normal returns
execute(w, e) ==
    With([w EXCEPT !.exec_calls[e.id].invoked = @ + 1,
                   !.log = Append(@, <<"event", e.id, 0>>)], LAMBDA w1 :
    IF e.handler = "remove_agent" THEN Simulation_remove_agent(w1, e.params)
    ELSE IF e.handler = "add_event"
    THEN Simulation_add_event(
             [w1 EXCEPT !.exec_calls = Append(@, NoCalls)],
             Event(Len(w1.exec_calls) + 1, e.params, "nothing", 0))
    ELSE w1)

\* `e.execute(self); self._events.remove(e)`
ExecuteAndRemove(v, e) ==
    Then(execute(v, e), LAMBDA v1 :
        [v1 EXCEPT !.exec_calls[e.id].returned = @ + 1,
                   !.events = RemoveFirst(@, e)])

\* a dispatch over the live list instead of its copy: the first ready event
\* of the list is executed and removed until the list holds none
Simulation_update_events_live(w, current_time) ==
    LET RECURSIVE Go(_, _)
        Go(v, fuel) ==
            IF fuel = 0 \/ ~Ok(v)
                 \/ \A i \in 1..Len(v.events) : ~is_ready(v.events[i], current_time)
            THEN v
            ELSE Go(ExecuteAndRemove(v, v.events[CHOOSE i \in 1..Len(v.events) :
                        /\ is_ready(v.events[i], current_time)
                        /\ \A j \in 1..(i - 1) : ~is_ready(v.events[j], current_time)]),
                    fuel - 1)
    IN  Go(w, 2 * Len(w.events))

\* `for e in list(self._events): if e.is_ready(time): ...`
Simulation_update_events(w, current_time) ==
    LET snapshot == w.events
        RECURSIVE Go(_)
        Go(i) == IF i = 0 THEN w
                 ELSE Then(Go(i - 1), LAMBDA v :
                          IF is_ready(snapshot[i], current_time)
                          THEN ExecuteAndRemove(v, snapshot[i])
                          ELSE v)
    IN  Go(Len(snapshot))

\* the agents visited from the last one to the first
UpdateAgentsBackwards(w, m) ==
    LET RECURSIVE OverAgents(_, _)
        OverAgents(v, j) ==
            IF j = 0 \/ ~Ok(v) THEN v
            ELSE OverAgents(update_attributes(v, m, v.agents[j]), j - 1)
    IN  OverAgents(w, Len(w.agents))

\* `for a in self._agents: m.update_attributes(a)`
UpdateAgents(w, m) ==
    LET RECURSIVE OverAgents(_, _)
        OverAgents(v, j) ==
            IF j > Len(v.agents) \/ ~Ok(v) THEN v
            ELSE OverAgents(update_attributes(v, m, v.agents[j]), j + 1)
    IN  OverAgents(w, 1)

\* one pass of `for m in self._models`
UpdateModel(v, i, dt) ==
    Then(IF update_needed(v.models[i].update_info)
         THEN Then(UpdateAgents(v, v.models[i]), LAMBDA u :
                  [u EXCEPT !.models[i].update_info = reset_time(@)])
         ELSE v, LAMBDA v1 :
    [v1 EXCEPT !.models[i].update_info = increase_time(@, dt)])

Simulation_update_models(w, dt) ==
    LET RECURSIVE OverModels(_, _)
        OverModels(v, i) ==
            IF i > Len(v.models) \/ ~Ok(v) THEN v
            ELSE OverModels(UpdateModel(v, i, dt), i + 1)
    IN  OverModels(w, 1)

----------------------------------------------------------------------------
(* The calls of the user, made while no run is in progress.                *)

Idle == run.pc = "idle"

\* a call can be made: at most MaxOps calls are explored
CanCall == Idle /\ run.calls < MaxOps

\* run.op names the call made last
Call(op, w) == /\ Store(w)
               /\ run' = [run EXCEPT !.calls = @ + 1, !.op = op]
               /\ UNCHANGED <<time, history>>

\* a = Agent(); sim.add_agent(a, **p)
AddNewAgent(p) ==
    /\ CanCall
    /\ Len(objects) < MaxAgents
    /\ Call("add_agent", Simulation_add_agent(
               [World EXCEPT !.objects = Append(@, Agent(id_count)),
                             !.id_count = @ + 1],
               Len(objects) + 1, p))

\* sim.add_agent(a, **p) with an agent object that was added before
AddAgentAgain(h, p) ==
    /\ CanCall
    /\ h \in 1..Len(objects)
    /\ Call("add_agent", Simulation_add_agent(World, h, p))

RemoveAgent(h) ==
    /\ CanCall
    /\ h \in 1..Len(objects)
    /\ Call("remove_agent", Simulation_remove_agent(World, h))

\* a.set_attribute(name, value), as a model or the user does
SetAttribute(h, name, value) ==
    /\ CanCall
    /\ h \in 1..Len(objects)
    /\ Call("set_attribute", [World EXCEPT !.objects[h] = set_attribute(@, name, value)])

AddModel(kind, update_interval) ==
    /\ CanCall
    /\ Len(models) < MaxModels
    /\ Call("add_model", Simulation_add_model(World, Model(Len(models) + 1, kind, update_interval)))

\* sim.add_event(Event(time=(due, 'ms'), handler, **params))
AddEvent(due, handler, params) ==
    /\ CanCall
    /\ Len(exec_calls) < MaxEvents
    /\ Call("add_event", Simulation_add_event([World EXCEPT !.exec_calls = Append(@, NoCalls)],
                                 Event(Len(exec_calls) + 1, due, handler, params)))

AddSpace(sp) ==
    /\ CanCall
    /\ Call("add_space", Simulation_add_space(World, sp))

\* space.update(dt) called on its own
UpdateSpace(dt) ==
    /\ CanCall
    /\ space.kind # "none"
    /\ \E w \in Space_update(World, dt) : Call("space.update", w)

----------------------------------------------------------------------------
(* Simulation.run(time, dt, dt_history): one action per pass of the loop   *)
(* body.  dt_history = 0 stands for None.  The frame `run` holds pc (the   *)
(* pass to do next, "idle" outside run), i and steps (the loop counter and *)
(* its limit), dt, history and history_ui (the locals), and for the        *)
(* statement of properties: length and start (the argument and sim.time at *)
(* the call), agents0, events0 and clock0 (the agents, the events and the  *)
(* elapsed times of the model clocks at the call), count (calls of run),   *)
(* completed (the last run returned), calls and op (the user's calls).     *)

\* Simulation.__dict__ of the one simulation
SimId == "sim"

SimDict ==
    [_id |-> SimId, _agents |-> agents, _space |-> space, _events |-> events,
     _models |-> models, _history |-> history, _time |-> time]

NotPickled == {"_events", "_models", "_history"}

\* __getstate__: a copy of __dict__ without the three live lists
getstate(d) == [k \in DOMAIN d \ NotPickled |-> d[k]]

\* __setstate__ without the three assignments that follow update()
setstate_update_only(state) == state

\* __setstate__: the pickled entries, then three fresh empty lists
setstate(state) ==
    [k \in DOMAIN state \cup NotPickled |->
        IF k \in NotPickled THEN <<>> ELSE state[k]]

\* the agents pickle reaches from the simulation: its list, the space's list
\* and the lattice's cells
Pickled ==
    (Range(agents) \cup Range(space.agents)
        \cup {space.agent_layer[c] : c \in Cells}) \ {0}

\* pickle.dumps(sim) and pickle.loads of its result
dumps ==
    [state |-> getstate(SimDict), objects |-> [h \in Pickled |-> objects[h]],
     heap |-> heap]

loads(s) == [s EXCEPT !.state = setstate(@)]

\* _make_history_entry appends pickle.dumps(self)
Snapshot == dumps

Abort(w) == /\ Store(w)
            /\ run' = [run EXCEPT !.pc = "idle", !.completed = FALSE]
            /\ UNCHANGED <<time, history>>

RunStart(time_ms, dt_ms, dt_history) ==
    /\ Idle
    /\ run.count < MaxRuns
    /\ run' = [run EXCEPT !.pc = "events", !.i = 0,
                          !.steps = CeilDiv(time_ms, dt_ms) + 1,
                          !.dt = dt_ms, !.length = time_ms, !.start = time,
                          !.history = dt_history # 0,
                          !.history_ui = UpdateInfo(dt_history),
                          !.count = @ + 1, !.completed = FALSE, !.op = "run",
                          !.agents0 = agents, !.events0 = events,
                          !.clock0 = [i \in 1..Len(models) |->
                                         models[i].update_info.elapsed_time]]
    /\ history' = IF dt_history # 0 THEN Append(history, Snapshot) ELSE history
    /\ update_calls' = [x \in DOMAIN update_calls |-> 0]
    /\ log' = <<>>
    /\ raised' = "none"
    /\ UNCHANGED <<time, agents, events, models, space, objects, heap, id_count,
                   init_calls, exec_calls>>

\* run(dt_history=...) in core/_simulation.py, which uses the name UpdateInfo
\* without importing it: the call ends with NameError before the first
\* snapshot and the first tick (core.py defines the class: RunStart)
RunStartNameError(time_ms, dt_ms, dt_history) ==
    /\ Idle
    /\ run.count < MaxRuns
    /\ dt_history # 0
    /\ run' = [run EXCEPT !.pc = "idle", !.i = 0, !.steps = 0,
                          !.dt = dt_ms, !.length = time_ms, !.start = time,
                          !.history = TRUE,
                          !.history_ui = UpdateInfo(0),
                          !.count = @ + 1, !.completed = FALSE, !.op = "run",
                          !.agents0 = agents, !.events0 = events,
                          !.clock0 = [i \in 1..Len(models) |->
                                         models[i].update_info.elapsed_time]]
    /\ update_calls' = [x \in DOMAIN update_calls |-> 0]
    /\ log' = <<>>
    /\ raised' = "NameError"
    /\ UNCHANGED <<time, agents, events, models, history, space, objects, heap,
                   id_count, init_calls, exec_calls>>

TickEvents ==
    /\ run.pc = "events"
    /\ LET w == Simulation_update_events([World EXCEPT !.log = <<>>], time)
       IN  IF Ok(w)
           THEN /\ Store(w)
                /\ run' = [run EXCEPT !.pc = "models"]
                /\ UNCHANGED <<time, history>>
           ELSE Abort(w)

\* the outcomes of the random draws of one pass over the models: the agents
\* whose draw is below a positive probability
Draws ==
    IF \E i \in 1..Len(models) : models[i].kind = "toxicity"
    THEN SUBSET Range(agents) ELSE {{}}

TickModels ==
    /\ run.pc = "models"
    /\ \E d \in Draws :
       LET w == Simulation_update_models([World EXCEPT !.draws = d], run.dt)
       IN  IF Ok(w)
           THEN /\ Store(w)
                /\ run' = [run EXCEPT !.pc = "space"]
                /\ UNCHANGED <<time, history>>
           ELSE Abort(w)

TickSpace ==
    /\ run.pc = "space"
    /\ IF space.kind = "none"
       THEN /\ run' = [run EXCEPT !.pc = "history"]
            /\ UNCHANGED <<time, agents, events, models, history, space, objects, heap,
                           id_count, log, init_calls, update_calls, exec_calls, raised>>
       ELSE \E w \in Space_update([World EXCEPT !.log = Append(@, <<"space", 0, 0>>)],
                                  run.dt) :
                IF Ok(w)
                THEN /\ Store(w)
                     /\ run' = [run EXCEPT !.pc = "history"]
                     /\ UNCHANGED <<time, history>>
                ELSE Abort(w)

TickHistory ==
    /\ run.pc = "history"
    /\ LET due == run.history /\ update_needed(run.history_ui)
           ui == IF due THEN reset_time(run.history_ui) ELSE run.history_ui
       IN  /\ history' = IF due THEN Append(history, Snapshot) ELSE history
           /\ log' = IF due THEN Append(log, <<"history", 0, 0>>) ELSE log
           /\ run' = [run EXCEPT !.pc = "advance",
                                 !.history_ui = IF run.history
                                                THEN increase_time(ui, run.dt) ELSE ui]
    /\ UNCHANGED <<time, agents, events, models, space, objects, heap, id_count,
                   init_calls, update_calls, exec_calls, raised>>

TickAdvance ==
    /\ run.pc = "advance"
    /\ time' = time + run.dt
    /\ log' = Append(log, <<"time", 0, 0>>)
    /\ run' = IF run.i + 1 = run.steps
              THEN [run EXCEPT !.pc = "idle", !.i = @ + 1, !.completed = TRUE]
              ELSE [run EXCEPT !.pc = "events", !.i = @ + 1]
    /\ UNCHANGED <<agents, events, models, history, space, objects, heap, id_count,
                   init_calls, update_calls, exec_calls, raised>>

----------------------------------------------------------------------------
(* The state after `sim = Simulation()`.                                   *)

NoRun ==
    [pc |-> "idle", i |-> 0, steps |-> 0, dt |-> 0, length |-> 0, start |-> 0,
     history |-> FALSE, history_ui |-> UpdateInfo(0), count |-> 0,
     completed |-> FALSE, calls |-> 0, op |-> "none",
     agents0 |-> <<>>, events0 |-> <<>>, clock0 |-> <<>>]

InitWith(sp, ms) ==
    /\ time = 0
    /\ agents = <<>>
    /\ events = <<>>
    /\ models = ms
    /\ history = <<>>
    /\ space = sp
    /\ objects = <<>>
    /\ heap = <<>>
    /\ id_count = 0
    /\ run = NoRun
    /\ log = <<>>
    /\ init_calls = [x \in ModelIds \X Handles |-> 0]
    /\ update_calls = [x \in ModelIds \X Handles |-> 0]
    /\ exec_calls = <<>>
    /\ raised = "none"

\* the state after Simulation(): no agents, events, models or space
Init == InitWith(NoSpace, <<>>)

----------------------------------------------------------------------------
(* SpecLattice: a simulation with a Lattice2DSpace of Nx x Ny cells (no    *)
(* update interval), driven by at most MaxOps calls: add_agent with a new  *)
(* or an earlier agent object, remove_agent, a division or removal request *)
(* written to an agent, and space.update.                                  *)

\* every cell, and one position beyond the last column
LatticePositions == Cells \cup {<<Nx, 0>>}

\* keyword arguments of add_agent on the lattice: a still agent with the
\* defaults, or a motile, binding agent that may push two cells
LatticeParams(position, motile) ==
    IF motile
    THEN [NoParams EXCEPT !.has = {"position", "substrate_info", "motility",
                                   "binding_affinity", "displacement_limit"},
                          !.position = position, !.motility = 1,
                          !.binding_affinity = 1, !.displacement_limit = 2]
    ELSE [NoParams EXCEPT !.has = {"position", "substrate_info"},
                          !.position = position]

InitLattice == InitWith(Lattice2DSpace(0, 0), <<>>)

NextLattice ==
    \/ \E pos \in LatticePositions, motile \in BOOLEAN :
           AddNewAgent(LatticeParams(pos, motile))
    \/ \E h \in Handles, pos \in LatticePositions :
           AddAgentAgain(h, LatticeParams(pos, FALSE))
    \/ \E h \in Handles : RemoveAgent(h)
    \/ \E h \in Handles, name \in {"division_pending", "remove_pending"} :
           SetAttribute(h, name, TRUE)
    \/ UpdateSpace(1)

SpecLattice == InitLattice /\ [][NextLattice]_vars

----------------------------------------------------------------------------
(* Spec: a simulation without a space.  Before the first run the user adds *)
(* agents, models with an update interval and events, and removes agents;  *)
(* then run is called up to MaxRuns times.                                 *)

\* run(10, 2), run(5, 3) and run(5, 7) of test_simulation_run_elapsed_time
NamedRuns == {<<10, 2>>, <<5, 3>>, <<5, 7>>}

Next ==
    \/ run.count = 0 /\ AddNewAgent(NoParams)
    \/ run.count = 0 /\ \E h \in Handles : RemoveAgent(h)
    \/ run.count = 0 /\ \E interval \in 1..MaxInterval : AddModel("base", interval)
    \/ run.count = 0 /\ \E due \in 0..MaxDue : AddEvent(due, "nothing", 0)
    \/ run.count = 0 /\ \E due \in 0..MaxDue, h \in 1..Len(objects) :
                            AddEvent(due, "remove_agent", h)
    \/ \E time_ms \in 1..MaxTime, dt_ms \in 1..MaxDt : RunStart(time_ms, dt_ms, 0)
    \/ /\ agents = <<>> /\ models = <<>> /\ events = <<>>
       /\ \E r \in NamedRuns : RunStart(r[1], r[2], 0)
    \/ TickEvents
    \/ TickModels
    \/ TickSpace
    \/ TickHistory
    \/ TickAdvance

Spec == Init /\ [][Next]_vars

----------------------------------------------------------------------------
(* SpecHomogeneous: a simulation with a HomogeneousSpace of volume         *)
(* Capacity (no update intervals), a FixedIncrementCellCycleModel          *)
(* ('fixed' distribution, no update interval) and a second model.  The     *)
(* user adds agents of volume 1 with cell cycle length CycleLength, with   *)
(* or without a substrate_info dictionary, and events; then run is called  *)
(* with dt = 1, with or without a history interval.                        *)

HomogeneousParams(with_substrate_info) ==
    [NoParams EXCEPT !.has = {"volume", "cellcycle_mean_length"}
                             \cup (IF with_substrate_info THEN {"substrate_info"} ELSE {}),
                     !.volume = 1, !.cellcycle_mean_length = CycleLength]

InitHomogeneous ==
    InitWith(HomogeneousSpace(Capacity, 0, 0),
             <<Model(1, "cellcycle", 0), Model(2, "base", 1)>>)

\* no event removes agent h yet: the handlers registered here do not raise
NotYetRemoved(h) ==
    /\ h \in Range(agents)
    /\ \A i \in 1..Len(events) :
           events[i].handler = "remove_agent" => events[i].params # h

NextHomogeneous ==
    \/ run.count = 0 /\ \E si \in BOOLEAN : AddNewAgent(HomogeneousParams(si))
    \/ run.count = 0 /\ \E due \in 0..MaxDue : AddEvent(due, "nothing", 0)
    \/ run.count = 0 /\ \E due \in 0..MaxDue, h \in 1..Len(objects) :
                            NotYetRemoved(h) /\ AddEvent(due, "remove_agent", h)
    \/ \E time_ms \in {CycleLength, 3 * CycleLength}, dt_history \in {0, 1} :
           RunStart(time_ms, 1, dt_history)
    \/ \E time_ms \in {CycleLength, 3 * CycleLength} :
           RunStartNameError(time_ms, 1, 1)
    \/ TickEvents
    \/ TickModels
    \/ TickSpace
    \/ TickHistory
    \/ TickAdvance

SpecHomogeneous == InitHomogeneous /\ [][NextHomogeneous]_vars

----------------------------------------------------------------------------
(* Conservation of placement on the lattice.                               *)

PositionOf(h) == get_attribute(objects[h], "position")

\* C1: in a Lattice2DSpace, after any sequence of add_agent, remove_agent and
\* update calls, every agent a held by the space has agent_layer[a.position]
\* = a, every non-empty cell holds an agent of the space whose position is
\* that cell, and no two held agents have the same position.
ConservationOfPlacement ==
    space.kind = "lattice2d" =>
        /\ \A i \in 1..Len(space.agents) :
               /\ has_attribute(objects[space.agents[i]], "position")
               /\ PositionOf(space.agents[i]) \in Cells
               /\ space.agent_layer[PositionOf(space.agents[i])] = space.agents[i]
        /\ \A c \in Cells :
               space.agent_layer[c] # 0 =>
                   /\ space.agent_layer[c] \in Range(space.agents)
                   /\ PositionOf(space.agent_layer[c]) = c
        /\ \A i, j \in 1..Len(space.agents) :
               i # j => PositionOf(space.agents[i]) # PositionOf(space.agents[j])

\* C8: Simulation.add_agent with a lattice position that is out of bounds or
\* already occupied raises an error and leaves sim.agents, the space's agent
\* list, the agent layer and the agent's attributes as they were before the
\* call (a newly constructed agent keeps its empty attribute dictionary).
AddAgentFailsAtomically ==
    [][(run'.calls # run.calls /\ run'.op = "add_agent" /\ raised' = "ValueError") =>
           /\ agents' = agents
           /\ space' = space
           /\ \A h \in 1..Len(objects) : objects'[h] = objects[h]
           /\ \A h \in (Len(objects) + 1)..Len(objects') :
                  objects'[h].attributes = NoAttributes]_vars

----------------------------------------------------------------------------
(* The run loop: final time, clock law, events, attribute initialisation.  *)

\* C3: run(time, dt) started at sim.time = 0 ends with sim.time =
\* dt * ceil(time / dt) (run(10, 2) at 10, run(5, 3) at 6, run(5, 7) at 7), and
\* on an empty simulation the agent list is still empty.
RunEndsAtCeil ==
    (run.completed /\ run.start = 0) =>
        /\ time = run.dt * CeilDiv(run.length, run.dt)
        /\ (run.agents0 = <<>> => agents = <<>>)

\* the update interval of the i-th model
Interval(i) == models[i].update_info.update_interval

\* the agents that were in sim.agents from the call of run to its return
PresentWholeRun == Range(run.agents0) \cap Range(agents)

Listed(evs) == {evs[i].id : i \in 1..Len(evs)}

\* the due time of the listed event id
Due(id) == (CHOOSE e \in Range(events) : e.id = id).time

InitializedOnce ==
    \A i \in 1..Len(models) : \A h \in Range(agents) :
        init_calls[<<models[i].id, h>>] = 1

----------------------------------------------------------------------------
(* Claims about a simulation with a HomogeneousSpace (SpecHomogeneous).    *)

\* the place of a log entry in the order of a tick
Phase(entry) ==
    CASE entry[1] = "event" -> 1
      [] entry[1] = "model" -> 2
      [] entry[1] = "space" -> 3
      [] entry[1] = "history" -> 4
      [] entry[1] = "time" -> 5

ModelIndex(id) == CHOOSE i \in 1..Len(models) : models[i].id = id

\* the agents the model updated in this tick, in the order of the calls
HandlesOf(id) ==
    LET OfModel(entry) == entry[1] = "model" /\ entry[2] = id
        calls == SelectSeq(log, OfModel)
    IN  [k \in 1..Len(calls) |-> calls[k][3]]

\* C2: within every tick the handlers of the due events run first, in event
\* insertion order, then the models in registration order, each due model
\* updating all agents in agent insertion order before the next model starts,
\* then space.update, then the history snapshot, and only then is the global
\* time advanced by dt.
TickOrder ==
    /\ \A j, k \in 1..Len(log) : j < k =>
           /\ Phase(log[j]) <= Phase(log[k])
           /\ Phase(log[j]) >= 3 => Phase(log[j]) < Phase(log[k])
           /\ (Phase(log[j]) = 1 /\ Phase(log[k]) = 1) => log[j][2] < log[k][2]
           /\ (Phase(log[j]) = 2 /\ Phase(log[k]) = 2) =>
                  ModelIndex(log[j][2]) <= ModelIndex(log[k][2])
    /\ run.pc \in {"models", "space", "history", "advance"} =>
           \A e \in Range(events) : e.time > time
    /\ run.pc = "space" =>
           \A i \in 1..Len(models) : HandlesOf(models[i].id) \in {<<>>, agents}
    /\ run.pc \in {"history", "advance"} =>
           \E k \in 1..Len(log) : log[k][1] = "space"
    /\ run.pc # "idle" => time = run.start + run.i * run.dt
    /\ ((run.pc = "events" /\ run.i > 0) \/ run.completed) =>
           log[Len(log)][1] = "time"

\* a tick in which two events, both models on two agents, the space and the
\* history snapshot all ran before the time was advanced
TickOrderWitness ==
    \E a, b \in Handles :
        /\ a # b
        /\ log = <<  <<"event", 1, 0>>, <<"event", 2, 0>>,
                     <<"model", 1, a>>, <<"model", 1, b>>,
                     <<"model", 2, a>>, <<"model", 2, b>>,
                     <<"space", 0, 0>>, <<"history", 0, 0>>, <<"time", 0, 0>>  >>

\* C4: run(time, dt) performs exactly ceil(time / dt) + 1 loop iterations,
\* whatever agents, models, events and space are present, and then terminates.
RunPerformsAllTicks ==
    (run.count > 0 /\ run.pc = "idle") =>
        /\ run.completed
        /\ run.i = CeilDiv(run.length, run.dt) + 1

\* C7: when run returns, every event registered before the run and due not
\* later than the start time of the last tick has been executed and removed;
\* for an event due at half the run length whose handler removes agent A, after
\* the run the event list no longer contains it and A is absent from sim.agents
\* and from the space.
DueEventsExecuted ==
    /\ run.completed =>
           \A e \in Range(run.events0) :
               e.time <= run.start + run.dt * (run.steps - 1) =>
                   /\ e \notin Range(events)
                   /\ exec_calls[e.id].invoked = 1
    /\ (run.count = 1 /\ run.pc = "idle") =>
           \A e \in Range(run.events0) :
               (/\ e.handler = "remove_agent"
                /\ e.params \in Range(run.agents0)
                /\ run.length = 2 * e.time) =>
                   /\ e \notin Range(events)
                   /\ e.params \notin Range(agents)
                   /\ e.params \notin Range(space.agents)

\* the sum of the volumes of the agents held by the space
TotalVolume(sp, objs) ==
    LET RECURSIVE Sum(_)
        Sum(i) == IF i = 0 THEN 0
                  ELSE objs[sp.agents[i]].attributes.volume + Sum(i - 1)
    IN  Sum(Len(sp.agents))

\* C10: a division never raises the total agent volume above the capacity; with
\* capacity 2 and one agent of volume 1 with a fixed cycle length, a run of
\* three cycle lengths ends with exactly 2 agents.
DivisionWithinCapacity ==
    [][/\ Len(space'.agents) > Len(space.agents) /\ run.pc = "space" =>
              TotalVolume(space', objects') <= space.volume
       /\ (/\ run.pc # "idle" /\ run'.pc = "idle"
           /\ run.count = 1 /\ Len(run.agents0) = 1 /\ run.events0 = <<>>
           /\ run.length = 3 * CycleLength) =>
              /\ run'.completed
              /\ Len(agents') = 2]_vars

----------------------------------------------------------------------------
(* A simulation with the cell-cycle model and either space: agents divide  *)
(* when their cycle is complete (SpecDivision).                            *)

\* keyword arguments of add_agent for a dividing agent of volume 1
DividingParams(position, with_substrate_info) ==
    [NoParams EXCEPT !.has = {"position", "volume", "cellcycle_mean_length"}
                             \cup (IF with_substrate_info THEN {"substrate_info"}
                                   ELSE {}),
                     !.position = position, !.volume = 1,
                     !.cellcycle_mean_length = CycleLength]

InitDivision ==
    \/ InitWith(HomogeneousSpace(Capacity, 0, 0), <<Model(1, "cellcycle", 0)>>)
    \/ InitWith(Lattice2DSpace(0, 0), <<Model(1, "cellcycle", 0)>>)

NextDivision ==
    \/ run.count = 0 /\ space.kind = "homogeneous"
                     /\ \E si \in BOOLEAN : AddNewAgent(HomogeneousParams(si))
    \/ run.count = 0 /\ space.kind = "lattice2d"
                     /\ \E pos \in Cells, si \in BOOLEAN :
                            AddNewAgent(DividingParams(pos, si))
    \/ \E time_ms \in {CycleLength, 2 * CycleLength + 1} : RunStart(time_ms, 1, 0)
    \/ TickEvents
    \/ TickModels
    \/ TickSpace
    \/ TickHistory
    \/ TickAdvance

SpecDivision == InitDivision /\ [][NextDivision]_vars

\* the attributes of agent object a, the position left out on the lattice
Comparable(a, sp) ==
    IF sp.kind = "lattice2d"
    THEN [a.attributes EXCEPT !.position = <<0, 0>>]
    ELSE a.attributes

\* the state the cell-cycle model leaves after reset_attributes and the
\* advance of the restarted cycle by the model's elapsed time
RestartedCycle(a, m) ==
    /\ ~a.attributes.division_completed
    /\ a.attributes.cellcycle_is_active
    /\ a.attributes.cellcycle_current_time = m.update_info.elapsed_time
    /\ a.attributes.cellcycle_length = a.attributes.cellcycle_mean_length
    /\ a.attributes.division_pending =
           (a.attributes.cellcycle_length <= m.update_info.elapsed_time)

\* C11: immediately after a division in either space every attribute of the
\* daughter equals the mother's attribute of the same name except position
\* (lattice), the two ids differ, the mother has division_pending false and
\* division_completed true, and the cell-cycle model resets the cell-cycle state
\* of an agent with division_completed true at its next due update.
DivisionInvariance ==
    [][/\ (run.pc = "space" /\ Len(objects') > Len(objects)) =>
              \A d \in (Len(objects) + 1)..Len(objects') :
                  \E m \in Range(agents) :
                      /\ objects[m].attributes.division_pending
                      /\ Comparable(objects'[d], space) = Comparable(objects'[m], space)
                      /\ objects'[d].id # objects'[m].id
                      /\ ~objects'[m].attributes.division_pending
                      /\ objects'[m].attributes.division_completed
       /\ (run.pc = "models" /\ run'.pc = "space") =>
              \A i \in 1..Len(models) : \A h \in Range(agents) :
                  (/\ models[i].kind = "cellcycle"
                   /\ update_needed(models[i].update_info)
                   /\ objects[h].attributes.division_completed) =>
                      RestartedCycle(objects'[h], models[i])]_vars

\* on the lattice, mother and daughter in different cells after the
\* cell-cycle model has restarted the cycle of both
DivisionInvarianceWitness ==
    /\ space.kind = "lattice2d" /\ run.pc = "space"
    /\ Len(run.agents0) = 1 /\ Len(agents) = 2
    /\ objects[agents[1]].attributes.position # objects[agents[2]].attributes.position
    /\ \A h \in Range(agents) :
           /\ ~objects[h].attributes.division_completed
           /\ objects[h].attributes.cellcycle_current_time = 1

----------------------------------------------------------------------------
(* Claims about removal on the lattice (SpecLattice).                      *)

\* the call made by this step is space.update
SpaceUpdated == run'.calls # run.calls /\ run'.op = "space.update"

\* C12: after every Lattice2DSpace.update in which the agent clock is due, no
\* agent with remove_pending true remains in sim.agents or in the space
\* (including a daughter cloned in the same update from a mother flagged for
\* removal), and the cell each removed agent occupied is empty.
NoPendingRemovalLeft ==
    [][SpaceUpdated =>
           /\ \A h \in Range(agents') \cup Range(space'.agents) :
                  ~objects'[h].attributes.remove_pending
           /\ \A h \in 1..Len(objects') :
                  (objects'[h].attributes.remove_pending
                   /\ h \notin Range(space'.agents)) =>
                      \A c \in Cells : space'.agent_layer[c] # h]_vars

\* the sequence s without the entries equal to x
Without(s, x) ==
    LET Other(y) == y # x
    IN  SelectSeq(s, Other)

\* s can be obtained from t by deleting entries
IsSubseq(s, t) ==
    LET RECURSIVE Match(_, _)
        Match(i, j) ==
            IF i > Len(s) THEN TRUE
            ELSE IF j > Len(t) THEN FALSE
            ELSE IF s[i] = t[j] THEN Match(i + 1, j + 1)
            ELSE Match(i, j + 1)
    IN  Match(1, 1)

\* C13: the order of sim.agents is stable: add_agent appends the agent at the
\* end, remove_agent(a) deletes one entry a and keeps the relative order of all
\* other agents, and a space update keeps the remaining agents in their order
\* and puts the daughters after all of them.
AgentOrderStable ==
    [][/\ (run'.calls # run.calls /\ run'.op = "add_agent") =>
              \E h \in 1..Len(objects') : agents' = Append(agents, h)
       /\ \A h \in Handles : RemoveAgent(h) =>
              \/ raised' = "ValueError" /\ agents' = agents
              \/ /\ Len(agents') = Len(agents) - 1
                 /\ Without(agents', h) = Without(agents, h)
                 /\ IsSubseq(agents', agents)
       /\ SpaceUpdated =>
              LET Existing(h) == h <= Len(objects)
              IN  /\ IsSubseq(SelectSeq(agents', Existing), agents)
                  /\ \A j, k \in 1..Len(agents') :
                         (j < k /\ ~Existing(agents'[j])) => ~Existing(agents'[k])
       /\ (run'.calls # run.calls /\ run'.op = "set_attribute") => agents' = agents]_vars

\* a1, a2 and a3 were added and a1 removed: agents[0] is a2, then a3
AgentOrderStableWitness ==
    /\ run.op = "remove_agent" /\ raised = "none"
    /\ Len(objects) = 3
    /\ agents = <<2, 3>>

----------------------------------------------------------------------------
(* Setting a simulation up: spaces and agents are added in any order       *)
(* (SpecSetup).                                                            *)

\* the spaces the user constructs
SetupSpaces ==
    {HomogeneousSpace(Capacity, 0, 0), HomogeneousSpace(Capacity + 1, 1, 1),
     Lattice2DSpace(0, 0)}

NextSetup ==
    \/ \E sp \in SetupSpaces : AddSpace(sp)
    \/ AddNewAgent(NoParams)
    \/ \E pos \in Cells, si \in BOOLEAN : AddNewAgent(DividingParams(pos, si))
    \/ \E h \in Handles : RemoveAgent(h)

SpecSetup == Init /\ [][NextSetup]_vars

\* C14: a space may be installed at most once: a second add_space call raises
\* an error and the simulation keeps the space installed by the first call.
SpaceInstalledOnce ==
    [][\A sp \in SetupSpaces : AddSpace(sp) =>
           IF space.kind = "none"
           THEN raised' = "none" /\ space' = sp
           ELSE raised' = "AttributeError" /\ space' = space]_vars

\* a second add_space, with another space, was refused after an agent had
\* been placed in the first
SpaceInstalledOnceWitness ==
    /\ run.op = "add_space" /\ raised = "AttributeError"
    /\ space.kind = "homogeneous" /\ Len(space.agents) = 1

\* the number of warnings in the call log
Warnings(l) ==
    LET IsWarning(entry) == entry[1] = "warning"
    IN  Len(SelectSeq(l, IsWarning))

\* C15: add_agent on a simulation without a space issues a warning on that call
\* and still accepts the agent: the agent is in sim.agents afterwards and the
\* agent count has grown by one.
AddAgentWithoutSpaceWarns ==
    [][(run'.calls # run.calls /\ run'.op = "add_agent" /\ space.kind = "none") =>
           /\ raised' = "none"
           /\ Warnings(log') = Warnings(log) + 1
           /\ Len(agents') = Len(agents) + 1
           /\ agents'[Len(agents')] = Len(objects')
           /\ Len(objects') = Len(objects) + 1]_vars

\* two agents were added without a space, each with a warning
AddAgentWithoutSpaceWitness ==
    /\ run.op = "add_agent" /\ space.kind = "none"
    /\ Len(agents) = 2 /\ Warnings(log) = 2

----------------------------------------------------------------------------
(* Snapshots: pickle.dumps(sim) and what pickle.loads gives back.          *)

\* what a simulation restored from snapshot s agrees on with the simulation
\* whose id, time, agent list, agent objects and space are given
Restores(s, t, as, os, sp) ==
    /\ DOMAIN loads(s).state = DOMAIN SimDict
    /\ loads(s).state._id = SimId
    /\ loads(s).state._time = t
    /\ loads(s).state._agents = as
    /\ loads(s).state._space = sp
    /\ \A h \in Range(as) \cup Range(sp.agents) :
           h \in DOMAIN loads(s).objects /\ loads(s).objects[h] = os[h]

EmptyLiveLists(s) ==
    /\ DOMAIN loads(s).state = DOMAIN SimDict
    /\ loads(s).state._events = <<>>
    /\ loads(s).state._models = <<>>
    /\ loads(s).state._history = <<>>

----------------------------------------------------------------------------
(* The history of a run with dt_history.                                   *)

RunCalled == run'.count # run.count

HistoryDue == run.pc = "history" /\ run.history /\ update_needed(run.history_ui)

SnapshotTimes(h) == [i \in 1..Len(h) |-> h[i].state._time]

NonDecreasing(s) == \A i, j \in 1..Len(s) : i <= j => s[i] <= s[j]

\* C17: a call of run with dt_history records one snapshot before the first
\* tick; a tick records one further snapshot exactly when the history clock
\* is due; every other step leaves the history alone, so the history is
\* append-only; and the times stored in successive snapshots never decrease
HistoryRecorded ==
    [][ /\ RunCalled /\ run'.history => history' = Append(history, Snapshot)
        /\ HistoryDue => history' = Append(history, Snapshot)
        /\ ~(RunCalled /\ run'.history) /\ ~HistoryDue => history' = history
        /\ NonDecreasing(SnapshotTimes(history')) ]_vars

\* the same for every step except a call of run that ends with NameError
HistoryRecordedWhereBound ==
    [][ raised' # "NameError" =>
        /\ RunCalled /\ run'.history => history' = Append(history, Snapshot)
        /\ HistoryDue => history' = Append(history, Snapshot)
        /\ ~(RunCalled /\ run'.history) /\ ~HistoryDue => history' = history
        /\ NonDecreasing(SnapshotTimes(history')) ]_vars

----------------------------------------------------------------------------
(* Agent.clone and later changes of the original and the clone: agents are *)
(* constructed, given plain attributes and a substrate_info dictionary     *)
(* with one SubstrateInfo, cloned, and changed afterwards.                 *)

MaxInfos == 2       \* SubstrateInfo objects constructed by the user

\* a = Agent()
NewAgent ==
    /\ CanCall
    /\ Len(objects) < MaxAgents
    /\ Call("Agent", [World EXCEPT !.objects = Append(@, Agent(id_count)),
                                   !.id_count = @ + 1])

\* a.set_attribute('substrate_info', {n: SubstrateInfo(type)})
SetSubstrateInfo(h, n, type) ==
    /\ CanCall
    /\ h \in 1..Len(objects)
    /\ Len(heap) < MaxInfos
    /\ Call("set_attribute",
            [World EXCEPT !.heap = Append(@, SubstrateInfo(type)),
                          !.objects[h] = set_attribute(@, "substrate_info",
                                             [k \in {n} |-> Len(heap) + 1])])

\* a.get_attribute('substrate_info')[n].concentration = c
SetConcentration(h, n, c) ==
    /\ CanCall
    /\ h \in 1..Len(objects)
    /\ IF ~has_attribute(objects[h], "substrate_info")
       THEN Call("set_concentration", Raise(World, "KeyError"))
       ELSE IF n \notin DOMAIN get_attribute(objects[h], "substrate_info")
       THEN Call("set_concentration", Raise(World, "KeyError"))
       ELSE Call("set_concentration",
                 [World EXCEPT
                     !.heap[get_attribute(objects[h], "substrate_info")[n]].concentration =
                         Float(c, 1)])

\* b = a.clone()
CloneAgent(h) ==
    /\ CanCall
    /\ h \in 1..Len(objects)
    /\ Len(objects) < MaxAgents
    /\ Call("clone", [clone(World, h) EXCEPT
                         !.log = Append(@, <<"clone", h, Len(objects) + 1>>)])

NextClone ==
    \/ NewAgent
    \/ \E h \in Handles, v \in 1..2 : SetAttribute(h, "volume", v)
    \/ \E h \in Handles, n \in Range(SubstrateNames) : SetSubstrateInfo(h, n, "flux")
    \/ \E h \in Handles, n \in Range(SubstrateNames), c \in 1..2 : SetConcentration(h, n, c)
    \/ \E h \in Handles : CloneAgent(h)

SpecClone == Init /\ [][NextClone]_vars

\* the attributes of agent a as a user reads them: every SubstrateInfo the
\* dictionary refers to is replaced by its fields
Attributes(a, hp) ==
    [a.attributes EXCEPT !.substrate_info = [n \in DOMAIN @ |-> hp[@[n]]]]

Changed(g) == Attributes(objects'[g], heap') # Attributes(objects[g], heap)

\* C18: clone returns a new agent whose attributes equal the original's,
\* nested SubstrateInfo fields included, and changes no existing agent; and a
\* later change of an attribute or of a SubstrateInfo field of one agent
\* changes the attributes of no other agent, original or clone
CloneIsDeepCopy ==
    [][ /\ \A h \in Handles : CloneAgent(h) =>
               /\ Len(objects') = Len(objects) + 1
               /\ Attributes(objects'[Len(objects')], heap') = Attributes(objects[h], heap)
               /\ \A g \in 1..Len(objects) : ~Changed(g)
        /\ \A g, h \in 1..Len(objects) : Changed(g) /\ Changed(h) => g = h ]_vars

\* an agent with a SubstrateInfo was cloned, and afterwards the
\* concentration was changed in one of the two and not in the other
CloneIsDeepCopyWitness ==
    /\ run.op = "set_concentration" /\ raised = "none"
    /\ \E i \in 1..Len(log) :
          /\ log[i][1] = "clone"
          /\ "oxygen" \in DOMAIN get_attribute(objects[log[i][2]], "substrate_info")
          /\ Attributes(objects[log[i][2]], heap).substrate_info.oxygen.concentration
                # Attributes(objects[log[i][3]], heap).substrate_info.oxygen.concentration

----------------------------------------------------------------------------
(* Agent ids.                                                              *)

\* C19: every agent object made by a step, constructed or cloned, has an id
\* greater than the id of every object made before; no step changes the id
\* of an existing object; and any two distinct agent objects have different
\* ids, whatever add_agent, remove_agent and update (division) calls were made
AgentIdsUnique ==
    [][ /\ Len(objects') >= Len(objects)
        /\ \A g \in 1..Len(objects) : objects'[g].id = objects[g].id
        /\ \A h \in (Len(objects) + 1)..Len(objects') :
               \A g \in 1..(h - 1) : objects'[g].id < objects'[h].id
        /\ \A g, h \in 1..Len(objects') :
               g # h => objects'[g].id # objects'[h].id ]_vars

\* an agent was added and divided in space.update, and then the mother or
\* the daughter was removed from the simulation
AgentIdsUniqueWitness ==
    /\ Len(objects) = 2
    /\ Len(agents) = 1
    /\ run.op = "remove_agent" /\ raised = "none"
    /\ get_attribute(objects[1], "division_completed")
    /\ objects[1].id < objects[2].id

----------------------------------------------------------------------------
(* Status flags of the agent class of agent.py: agents are constructed,    *)
(* flags are initialised, set and read.  Values are written as Python      *)
(* literals; the dictionary stores them as they are given.                 *)

MaxFlagOps == 5     \* calls made on the agents of agent.py

FlagNames == {"my_flag_1", "test_flag_str"}

InitialValues == {"None", "0"}

SetValues == {"True", "'test_value'"}

\* agent.Agent(): no status flags
LegacyAgent == [_status_flags |-> [f \in {} |-> "None"]]

has_status_flag(a, identifier) == identifier \in DOMAIN a._status_flags

\* initialize_status_flag: a flag in use is left as it is, with a warning
initialize_status_flag(w, h, identifier, value) ==
    IF ~has_status_flag(w.objects[h], identifier)
    THEN [w EXCEPT !.objects[h]._status_flags =
             [f \in DOMAIN @ \cup {identifier} |->
                 IF f = identifier THEN value ELSE @[f]]]
    ELSE Warn(w, h)

\* a set_status_flag that only checks the identifier
set_status_flag_checked_only(w, h, identifier, value) ==
    IF has_status_flag(w.objects[h], identifier) THEN w ELSE Raise(w, "ValueError")

set_status_flag(w, h, identifier, value) ==
    IF has_status_flag(w.objects[h], identifier)
    THEN [w EXCEPT !.objects[h]._status_flags[identifier] = value]
    ELSE Raise(w, "ValueError")

\* get_status_flag: the value is returned through the log
get_status_flag(w, h, identifier) ==
    IF has_status_flag(w.objects[h], identifier)
    THEN [w EXCEPT !.log = <<<<"return", w.objects[h]._status_flags[identifier]>>>>]
    ELSE Raise(w, "ValueError")

CanCallLegacy == Idle /\ run.calls < MaxFlagOps

NewLegacyAgent ==
    /\ CanCallLegacy
    /\ Len(objects) < 2
    /\ Call("Agent", [World EXCEPT !.objects = Append(@, LegacyAgent), !.log = <<>>])

InitializeStatusFlag(h, identifier, value) ==
    /\ CanCallLegacy
    /\ h \in 1..Len(objects)
    /\ Call("initialize_status_flag",
            initialize_status_flag([World EXCEPT !.log = <<>>], h, identifier, value))

SetStatusFlag(h, identifier, value) ==
    /\ CanCallLegacy
    /\ h \in 1..Len(objects)
    /\ Call("set_status_flag",
            set_status_flag([World EXCEPT !.log = <<>>], h, identifier, value))

GetStatusFlag(h, identifier) ==
    /\ CanCallLegacy
    /\ h \in 1..Len(objects)
    /\ Call("get_status_flag",
            get_status_flag([World EXCEPT !.log = <<>>], h, identifier))

NextFlags ==
    \/ NewLegacyAgent
    \/ \E h \in 1..2, f \in FlagNames, v \in InitialValues : InitializeStatusFlag(h, f, v)
    \/ \E h \in 1..2, f \in FlagNames, v \in SetValues : SetStatusFlag(h, f, v)
    \/ \E h \in 1..2, f \in FlagNames : GetStatusFlag(h, f)

SpecFlags == Init /\ [][NextFlags]_vars

\* what get_status_flag would return for an initialised flag
FlagValue(os, h, f) == os[h]._status_flags[f]

\* C20: for every initialised flag f of every agent h, get_status_flag
\* returns the stored value without raising; set_status_flag(f, v) makes the
\* stored value v; and no other call (a set of another flag or agent, a
\* repeated initialisation, a get) changes it: so a get returns the value of
\* the most recent set on that flag
GetReturnsLastSet ==
    [][ \A h \in 1..Len(objects) : \A f \in FlagNames :
          has_status_flag(objects[h], f) =>
            /\ has_status_flag(objects'[h], f)
            /\ GetStatusFlag(h, f) =>
                  raised' = "none" /\ log' = <<<<"return", FlagValue(objects, h, f)>>>>
            /\ \A v \in SetValues : SetStatusFlag(h, f, v) =>
                  raised' = "none" /\ FlagValue(objects', h, f) = v
            /\ (\A v \in SetValues : ~SetStatusFlag(h, f, v)) =>
                  FlagValue(objects', h, f) = FlagValue(objects, h, f) ]_vars

\* a flag was initialised, set to True, set to 'test_value', and read
GetReturnsLastSetWitness ==
    /\ run.op = "get_status_flag" /\ raised = "none"
    /\ run.calls = 5
    /\ Len(objects) = 1
    /\ log = <<<<"return", "'test_value'">>>>
    /\ DOMAIN objects[1]._status_flags = {"test_flag_str"}

----------------------------------------------------------------------------
(* Displacement trials on the lattice (SpecLattice).                       *)

PositionIn(os, h) == os[h].attributes.position

VonNeumannNeighbours(c, d) == Abs(c[1] - d[1]) + Abs(c[2] - d[2]) = 1

Moved(h) == PositionIn(objects', h) # PositionIn(objects, h)

\* an update of the space in which no held agent is flagged for division or
\* removal: only the displacement trials can act
DisplacementOnly ==
    /\ SpaceUpdated
    /\ raised' = "none"
    /\ \A h \in Range(space.agents) :
          /\ ~objects[h].attributes.division_pending
          /\ ~objects[h].attributes.remove_pending

\* what the displacement trials of one update leave behind
TrialsExclusive ==
    /\ space'.agents = space.agents
    /\ \A h \in Range(space.agents) :
          Moved(h) =>
            /\ PositionIn(objects', h) \in Cells
            /\ VonNeumannNeighbours(PositionIn(objects, h), PositionIn(objects', h))
            /\ \/ space.agent_layer[PositionIn(objects', h)] = 0
               \/ /\ space.agent_layer[PositionIn(objects', h)] \in Range(space.agents)
                  /\ Moved(space.agent_layer[PositionIn(objects', h)])
            /\ space'.agent_layer[PositionIn(objects', h)] = h
    /\ \A g, h \in Range(space.agents) :
          g # h => PositionIn(objects', g) # PositionIn(objects', h)
    /\ \A c \in Cells :
          space'.agent_layer[c] # space.agent_layer[c] =>
            \E h \in Range(space.agents) :
               Moved(h) /\ c \in {PositionIn(objects, h), PositionIn(objects', h)}

\* C21: in an update where only the displacement trials act, every agent
\* that moved is on an in-bounds von Neumann neighbour of its old cell that
\* was empty (or vacated by an agent that moved before it), no two agents
\* share a cell, and the layer changes only at the old and new cells of the
\* agents that moved: a rejected trial leaves the layer and the positions
\* as they were
DisplacementExclusion ==
    [][DisplacementOnly => TrialsExclusive]_vars

\* the same for the updates that start from a consistent placement
DisplacementExclusionWherePlaced ==
    [][DisplacementOnly /\ ConservationOfPlacement /\ agents = space.agents
          => TrialsExclusive]_vars

----------------------------------------------------------------------------
(* Division trials on the lattice, one trial per step (SpecTrial): agents  *)
(* with displacement limit 1 or 2 are added, added again, removed and      *)
(* flagged, and then the body of the loop of _cell_division_trials runs    *)
(* for one flagged agent at a time.                                        *)

MaxTrials == 1      \* division trials after the user's calls

\* keyword arguments of add_agent for a still agent with a displacement limit
TrialParams(position, displacement_limit) ==
    [NoParams EXCEPT !.has = {"position", "substrate_info", "displacement_limit"},
                     !.position = position,
                     !.displacement_limit = displacement_limit]

\* the number of agents whose position differs in world w from the present one
MovedBy(w) ==
    Cardinality({g \in 1..Len(objects) :
                    w.objects[g].attributes.position # objects[g].attributes.position})

\* `if a.get_attribute('division_pending'): self._perform_cell_division(a, dt)`
DivisionTrial(h) ==
    /\ Idle
    /\ run.calls < MaxOps + MaxTrials
    /\ space.kind = "lattice2d"
    /\ h \in Range(space.agents)
    /\ get_attribute(objects[h], "division_pending")
    /\ \E w \in Lattice2DSpace_perform_cell_division(World, h) :
           Call("division_trial", [w EXCEPT !.log = <<<<"moved", MovedBy(w), 0>>>>])

NextTrial ==
    \/ \E pos \in LatticePositions, limit \in 1..2 :
           AddNewAgent(TrialParams(pos, limit))
    \/ \E h \in Handles, pos \in Cells : AddAgentAgain(h, TrialParams(pos, 1))
    \/ \E h \in Handles : RemoveAgent(h)
    \/ \E h \in Handles : SetAttribute(h, "division_pending", TRUE)
    \/ \E h \in Handles : DivisionTrial(h)

SpecTrial == InitLattice /\ [][NextTrial]_vars

EmptyCells == {c \in Cells : space.agent_layer[c] = 0}

\* the empty cells within the displacement limit of agent h
EmptyWithinLimit(h) ==
    {c \in EmptyCells :
        SquaredDistance(PositionIn(objects, h), c)
            <= objects[h].attributes.displacement_limit
               * objects[h].attributes.displacement_limit}

Nearest(h) ==
    {c \in EmptyCells :
        \A d \in EmptyCells : SquaredDistance(PositionIn(objects, h), c)
                                 <= SquaredDistance(PositionIn(objects, h), d)}

Divided(h) ==
    /\ raised' = "none"
    /\ Len(space'.agents) = Len(space.agents) + 1
    /\ Len(agents') = Len(agents) + 1
    /\ ~objects'[h].attributes.division_pending
    /\ objects'[h].attributes.division_completed
    /\ \E t \in Nearest(h) :
          /\ space'.agent_layer[t] # 0
          /\ \A c \in EmptyCells \ {t} : space'.agent_layer[c] = 0

Skipped ==
    /\ raised' = "none"
    /\ agents' = agents
    /\ space' = space
    /\ objects' = objects

\* C22: a division trial of a flagged agent divides it if and only if an
\* empty cell lies within its displacement limit, and then one nearest empty
\* cell becomes occupied and every other empty cell stays empty; otherwise
\* the trial changes neither the layer, the positions, the agent lists nor
\* the flags
DivisionIffWithinLimit ==
    [][\A h \in Handles :
          DivisionTrial(h) =>
              IF EmptyWithinLimit(h) # {} THEN Divided(h) ELSE Skipped]_vars

\* the same for the trials that start from a consistent placement
DivisionIffWithinLimitWherePlaced ==
    [][\A h \in Handles :
          DivisionTrial(h) /\ ConservationOfPlacement /\ agents = space.agents =>
              IF EmptyWithinLimit(h) # {} THEN Divided(h) ELSE Skipped]_vars

----------------------------------------------------------------------------
(* The push along the path of a division.                                  *)

MooreNeighbours(c, d) ==
    /\ c # d
    /\ Abs(c[1] - d[1]) <= 1
    /\ Abs(c[2] - d[2]) <= 1

\* the step is a division trial of h that added a daughter
DivisionDone(h) ==
    /\ DivisionTrial(h)
    /\ raised' = "none"
    /\ Len(objects') = Len(objects) + 1

\* the cells of the path strictly between the mother's cell and the target
Interior(path) == {path[i] : i \in 2..(Len(path) - 1)}

\* what a division of h along path leaves behind: d is the daughter
PushedAlong(h, d, path) ==
    /\ PositionIn(objects', d) = path[2]
    /\ space'.agent_layer[path[2]] = d
    /\ space'.agent_layer[path[Len(path)]] # 0
    /\ \A i \in 2..(Len(path) - 1) :
          /\ space.agent_layer[path[i]] # 0
          /\ PositionIn(objects', space.agent_layer[path[i]]) = path[i + 1]
          /\ space'.agent_layer[path[i + 1]] = space.agent_layer[path[i]]
          /\ MooreNeighbours(path[i], path[i + 1])
    /\ \A g \in Range(space.agents) :
          PositionIn(objects, g) \notin Interior(path) =>
              PositionIn(objects', g) = PositionIn(objects, g)

\* C23: after a successful division the mother's position is unchanged, the
\* daughter is on the path cell next to the mother, a Moore neighbour of the
\* mother; every agent on an interior cell of the path to a nearest empty
\* cell has moved one cell to the next path cell, all other agents are
\* unmoved, the target cell is occupied and there is one agent more
PushAlongPathOnly ==
    [][\A h \in Handles :
          DivisionDone(h) =>
            /\ PositionIn(objects', h) = PositionIn(objects, h)
            /\ MooreNeighbours(PositionIn(objects, h),
                               PositionIn(objects', Len(objects')))
            /\ Len(agents') = Len(agents) + 1
            /\ space'.agents = Append(space.agents, Len(objects'))
            /\ \E t \in Nearest(h) :
                  PushedAlong(h, Len(objects'),
                      bresenham_2d(PositionIn(objects, h)[1], PositionIn(objects, h)[2],
                                   t[1], t[2]))]_vars

\* the same for the divisions that start from a consistent placement
PushAlongPathOnlyWherePlaced ==
    [][\A h \in Handles :
          DivisionDone(h) /\ ConservationOfPlacement /\ agents = space.agents =>
            /\ PositionIn(objects', h) = PositionIn(objects, h)
            /\ MooreNeighbours(PositionIn(objects, h),
                               PositionIn(objects', Len(objects')))
            /\ Len(agents') = Len(agents) + 1
            /\ space'.agents = Append(space.agents, Len(objects'))
            /\ ConservationOfPlacement'
            /\ \E t \in Nearest(h) :
                  PushedAlong(h, Len(objects'),
                      bresenham_2d(PositionIn(objects, h)[1], PositionIn(objects, h)[2],
                                   t[1], t[2]))]_vars


\* the world after Simulation() and add_space(sp)
InitialWorld(sp) ==
    [agents |-> <<>>, events |-> <<>>, models |-> <<>>, space |-> sp,
     objects |-> <<>>, heap |-> <<>>, id_count |-> 0, log |-> <<>>,
     init_calls |-> [x \in ModelIds \X Handles |-> 0],
     update_calls |-> [x \in ModelIds \X Handles |-> 0],
     exec_calls |-> <<>>, raised |-> "none", draws |-> {}, handed |-> <<>>]

\* a = Agent(); sim.add_agent(a, **ps[i]) for each i in turn
AddedInTurn(w, ps) ==
    LET RECURSIVE Go(_)
        Go(i) == IF i = 0 THEN w
                 ELSE With(Go(i - 1), LAMBDA v :
                      Simulation_add_agent(
                          [v EXCEPT !.objects = Append(@, Agent(v.id_count)),
                                    !.id_count = @ + 1],
                          Len(v.objects) + 1, ps[i]))
    IN  Go(Len(ps))

\* three or four distinct cells
Placements ==
    {cs \in UNION {[1..k -> Cells] : k \in 3..4} :
        \A i, j \in DOMAIN cs : i # j => cs[i] # cs[j]}

\* a lattice on which agents were added at distinct cells, the first with
\* displacement limit 2 and the others with limit 1
InitPush ==
    \E cs \in Placements :
        With(AddedInTurn(InitialWorld(Lattice2DSpace(0, 0)),
                         [i \in DOMAIN cs |-> TrialParams(cs[i], IF i = 1 THEN 2 ELSE 1)]),
             LAMBDA w :
                 /\ time = 0
                 /\ agents = w.agents
                 /\ events = w.events
                 /\ models = w.models
                 /\ history = <<>>
                 /\ space = w.space
                 /\ objects = w.objects
                 /\ heap = w.heap
                 /\ id_count = w.id_count
                 /\ run = NoRun
                 /\ log = w.log
                 /\ init_calls = w.init_calls
                 /\ update_calls = w.update_calls
                 /\ exec_calls = w.exec_calls
                 /\ raised = "none")

NextPush ==
    \/ \E h \in Handles, pos \in Cells :
          run.calls = 0 /\ AddAgentAgain(h, TrialParams(pos, 1))
    \/ \E h \in Handles : SetAttribute(h, "division_pending", TRUE)
    \/ \E h \in Handles : DivisionTrial(h)

SpecPush == InitPush /\ [][NextPush]_vars

\* a division moved an agent along the path: the placement was and is
\* consistent, and the daughter is next to the mother
PushAlongPathOnlyWitness ==
    /\ run.op = "division_trial" /\ raised = "none"
    /\ log = <<<<"moved", 1, 0>>>>
    /\ Len(objects) = 5
    /\ ConservationOfPlacement
    /\ agents = space.agents

----------------------------------------------------------------------------
(* SpecClocks: a simulation with a space of either kind whose agent clock  *)
(* and substrate clock have an interval of 0 (none given) to MaxInterval,  *)
(* and one model with an interval of 0 to MaxInterval.  The user adds      *)
(* agents, with or without a substrate_info dictionary, and calls run.     *)

ClockPositions == {<<0, 0>>, <<1, 0>>}

InitClocks ==
    \E dt_agent \in 0..MaxInterval, dt_substrate \in 0..MaxInterval,
       update_interval \in 0..MaxInterval :
        \/ InitWith(HomogeneousSpace(Capacity, dt_agent, dt_substrate),
                    <<Model(1, "base", update_interval)>>)
        \/ InitWith(Lattice2DSpace(dt_agent, dt_substrate),
                    <<Model(1, "base", update_interval)>>)

NextClocks ==
    \/ run.count = 0 /\ space.kind = "homogeneous" /\ Len(objects) < 2
                     /\ \E si \in BOOLEAN : AddNewAgent(HomogeneousParams(si))
    \/ run.count = 0 /\ space.kind = "lattice2d" /\ Len(objects) < 2
                     /\ \E pos \in ClockPositions, si \in BOOLEAN :
                            AddNewAgent(DividingParams(pos, si))
    \/ \E dt_ms \in 1..MaxDt : RunStart(MaxTime, dt_ms, 0)
    \/ TickEvents
    \/ TickModels
    \/ TickSpace
    \/ TickHistory
    \/ TickAdvance

SpecClocks == InitClocks /\ [][NextClocks]_vars

\* the model pass of the present tick invoked update_attributes of the i-th
\* model on agent h
ModelUpdated(i, h) ==
    \E k \in DOMAIN log : log[k] = <<"model", models[i].id, h>>

\* the i-th model was due in the present tick
ModelDue(i) == \E h \in Range(agents) : ModelUpdated(i, h)

\* the space pass of the present tick found the clock due: dt > 0 was added
\* to the clock, and only the reset after the work brings it back to 0
ClockDue(ui) == ui.elapsed_time = 0

\* C24: in the first run, with all clocks fresh, a space clock (agent clock or
\* substrate clock) with the same interval as a model clock is due on exactly
\* the ticks on which the model is due, and with an interval above dt none of
\* them is due on the first tick
ClocksDueTogether ==
    (run.pc = "history" /\ run.count = 1 /\ agents # <<>>) =>
        \A i \in 1..Len(models) :
            /\ Interval(i) = space.agent_update_info.update_interval =>
                   (ModelDue(i) <=> ClockDue(space.agent_update_info))
            /\ Interval(i) = space.substrate_update_info.update_interval =>
                   (ModelDue(i) <=> ClockDue(space.substrate_update_info))

\* with an interval above dt no clock is due on the first tick of the first run
NoneDueOnFirstTick ==
    (run.pc = "history" /\ run.count = 1 /\ run.i = 0) =>
        /\ \A i \in 1..Len(models) : Interval(i) > run.dt => ~ModelDue(i)
        /\ space.agent_update_info.update_interval > run.dt =>
               ~ClockDue(space.agent_update_info)
        /\ space.substrate_update_info.update_interval > run.dt =>
               ~ClockDue(space.substrate_update_info)

\* the two clocks of the space, given the same interval, are due together
SpaceClocksDueTogether ==
    (run.pc = "history" /\ run.count = 1
        /\ space.agent_update_info.update_interval
               = space.substrate_update_info.update_interval) =>
        (ClockDue(space.agent_update_info) <=> ClockDue(space.substrate_update_info))

----------------------------------------------------------------------------
(* Clocks without an interval.                                             *)

\* the space pass of the present tick of a run has ended, by its return or
\* by an exception that ended the run
SpacePassEnded ==
    /\ run.count >= 1
    /\ space.kind # "none"
    /\ \/ run.pc = "history"
       \/ run.pc = "idle" /\ ~run.completed

\* C25: a clock without an interval has interval 0 and is due on every tick:
\* in every iteration of run, the first included, the model pass invokes
\* update_attributes of a model without interval on every held agent, and
\* the pass of a space without dt_agent / dt_substrate runs the mechanics
\* and the substrate step
DueOnEveryTickWithoutInterval ==
    /\ UpdateInfo(0).update_interval = 0
    /\ run.pc = "space" =>
           \A i \in 1..Len(models) : \A h \in Range(agents) :
               Interval(i) = 0 => ModelUpdated(i, h)
    /\ SpacePassEnded =>
           /\ space.agent_update_info.update_interval = 0 =>
                  ClockDue(space.agent_update_info)
           /\ space.substrate_update_info.update_interval = 0 =>
                  ClockDue(space.substrate_update_info)

\* every held agent carries a substrate_info dictionary
AllCarrySubstrateInfo ==
    \A h \in Range(space.agents) : has_attribute(objects[h], "substrate_info")

\* the same where every held agent carries a substrate_info dictionary
DueOnEveryTickWhereInfo ==
    AllCarrySubstrateInfo => DueOnEveryTickWithoutInterval

\* the model pass of a later tick has updated two agents of a simulation whose
\* model and space have no interval
DueOnEveryTickReached ==
    /\ run.pc = "history" /\ run.i >= 1
    /\ Len(agents) = 2
    /\ AllCarrySubstrateInfo
    /\ Interval(1) = 0
    /\ space.agent_update_info.update_interval = 0
    /\ space.substrate_update_info.update_interval = 0
    /\ \A h \in Range(agents) : ModelUpdated(1, h)

----------------------------------------------------------------------------
(* SpecCapacity: a simulation with a HomogeneousSpace of volume Capacity   *)
(* (no update intervals) to which the user has added one to three agents,  *)
(* of volume 1 or of the default volume 0, with or without a               *)
(* substrate_info dictionary, and has requested the division of some of    *)
(* them.  The user then requests removals, calls remove_agent and calls    *)
(* space.update.                                                           *)

\* keyword arguments of add_agent: volume 1, or none (the default volume 0)
CapacityParams(with_volume, with_substrate_info) ==
    [NoParams EXCEPT !.has = (IF with_volume THEN {"volume"} ELSE {})
                             \cup (IF with_substrate_info THEN {"substrate_info"} ELSE {}),
                     !.volume = 1]

\* a.set_attribute('division_pending', True) for each agent a of the set hs
RequestDivisions(w, hs) ==
    [w EXCEPT !.objects = [h \in DOMAIN @ |->
                              IF h \in hs THEN set_attribute(@[h], "division_pending", TRUE)
                              ELSE @[h]]]

InitCapacity ==
    \E k \in 1..MaxAgents :
    \E vs \in [1..k -> BOOLEAN], sis \in [1..k -> BOOLEAN], hs \in SUBSET (1..k) :
        With(RequestDivisions(
                 AddedInTurn(InitialWorld(HomogeneousSpace(Capacity, 0, 0)),
                             [i \in 1..k |-> CapacityParams(vs[i], sis[i])]), hs),
             LAMBDA w :
                 /\ time = 0
                 /\ agents = w.agents
                 /\ events = w.events
                 /\ models = w.models
                 /\ history = <<>>
                 /\ space = w.space
                 /\ objects = w.objects
                 /\ heap = w.heap
                 /\ id_count = w.id_count
                 /\ run = NoRun
                 /\ log = <<>>
                 /\ init_calls = w.init_calls
                 /\ update_calls = w.update_calls
                 /\ exec_calls = w.exec_calls
                 /\ raised = "none")

NextCapacity ==
    \/ \E h \in Handles : SetAttribute(h, "remove_pending", TRUE)
    \/ \E h \in Handles : RemoveAgent(h)
    \/ UpdateSpace(1)

SpecCapacity == InitCapacity /\ [][NextCapacity]_vars

----------------------------------------------------------------------------
(* The free-volume latch of the homogeneous space.                         *)

DivisionPending(os, h) == os[h].attributes.division_pending

\* no held agent is flagged for removal: the update calls no remove_agent
NoHeldRemoval == \A h \in Range(space.agents) : ~objects[h].attributes.remove_pending

\* the held agents whose division is requested, in the order of the list
PendingInOrder == SelectSeq(space.agents, LAMBDA h : DivisionPending(objects, h))

\* agent h fits once more into the space
Fits(h) ==
    TotalVolume(space, objects) + objects[h].attributes.volume <= space.volume

\* the step divided agent h: a clone was added, h is marked
DivisionCarriedOut(h) ==
    /\ Len(objects') > Len(objects)
    /\ ~DivisionPending(objects', h)
    /\ objects'[h].attributes.division_completed

\* the step is a call of remove_agent that returned
AgentRemoved ==
    run'.calls # run.calls /\ run'.op = "remove_agent" /\ raised' = "none"

\* C26: while the latch is false an update that removes no agent divides no
\* agent and leaves the division_pending flags set; an update that returns
\* with a division still pending, and removed no agent, leaves the latch
\* false; a removal after which the total volume is within the capacity sets
\* the latch, and the update that follows a removal carries out the first
\* pending division if it fits
LatchUntilRemoval ==
    [][/\ (SpaceUpdated /\ ~space.has_free_volume /\ NoHeldRemoval) =>
              /\ Len(objects') = Len(objects)
              /\ ~space'.has_free_volume
              /\ \A h \in Range(space.agents) :
                     DivisionPending(objects', h) = DivisionPending(objects, h)
       /\ (SpaceUpdated /\ raised' = "none" /\ NoHeldRemoval
              /\ \E h \in Range(space.agents) :
                     DivisionPending(objects, h) /\ DivisionPending(objects', h)) =>
              ~space'.has_free_volume
       /\ (AgentRemoved /\ TotalVolume(space', objects') <= space.volume) =>
              space'.has_free_volume
       /\ (SpaceUpdated /\ run.op = "remove_agent" /\ raised = "none"
              /\ PendingInOrder # <<>> /\ Fits(Head(PendingInOrder))) =>
              DivisionCarriedOut(Head(PendingInOrder))]_vars

\* the same where every held agent carries a substrate_info dictionary
LatchUntilRemovalWhereInfo ==
    [][AllCarrySubstrateInfo =>
       /\ (SpaceUpdated /\ ~space.has_free_volume /\ NoHeldRemoval) =>
              /\ Len(objects') = Len(objects)
              /\ ~space'.has_free_volume
              /\ \A h \in Range(space.agents) :
                     DivisionPending(objects', h) = DivisionPending(objects, h)
       /\ (SpaceUpdated /\ raised' = "none" /\ NoHeldRemoval
              /\ \E h \in Range(space.agents) :
                     DivisionPending(objects, h) /\ DivisionPending(objects', h)) =>
              ~space'.has_free_volume
       /\ (AgentRemoved /\ TotalVolume(space', objects') <= space.volume) =>
              space'.has_free_volume
       /\ (SpaceUpdated /\ run.op = "remove_agent" /\ raised = "none"
              /\ PendingInOrder # <<>> /\ Fits(Head(PendingInOrder))) =>
              DivisionCarriedOut(Head(PendingInOrder))]_vars

\* a division that was blocked by the latch has been carried out by the
\* update that followed a removal
LatchReleased ==
    /\ run.calls = 3 /\ run.op = "space.update" /\ raised = "none"
    /\ Len(objects) = 3 /\ Len(space.agents) = 2
    /\ objects[1].attributes.division_completed
    /\ space.has_free_volume
    /\ AllCarrySubstrateInfo

----------------------------------------------------------------------------
(* Removal in the homogeneous space.                                       *)

\* the agents in sim.agents or in the list of the space that are flagged
FlaggedLeft(as, sp, os) ==
    {h \in Range(as) \cup Range(sp.agents) : os[h].attributes.remove_pending}

\* C27: after every HomogeneousSpace.update in which the agent clock is due
\* (here every update, the clock having no interval) and which returns, no
\* agent with remove_pending true remains in sim.agents or in the list of the
\* space, the agents created by division in that update included
NoFlaggedAgentLeft ==
    [][(SpaceUpdated /\ space.kind = "homogeneous" /\ raised' = "none") =>
           FlaggedLeft(agents', space', objects') = {}]_vars

\* the same for the agents that were held when the update began
NoFlaggedAgentLeftOfHeld ==
    [][(SpaceUpdated /\ space.kind = "homogeneous" /\ raised' = "none") =>
           FlaggedLeft(agents', space', objects') \cap (1..Len(objects)) = {}]_vars

\* an update has removed a flagged agent that did not divide
FlaggedAgentRemoved ==
    /\ run.op = "space.update" /\ raised = "none"
    /\ \E h \in 1..Len(objects) :
           /\ objects[h].attributes.remove_pending
           /\ ~objects[h].attributes.division_completed
           /\ h \notin Range(agents) \cup Range(space.agents)

----------------------------------------------------------------------------
(* SpecNodes: a simulation with a space of either kind (no update          *)
(* intervals), with the substrate field 'oxygen' or without a field.  The  *)
(* user adds agents of volume 1 without substrate_info, with an empty      *)
(* substrate_info dictionary or with a flux SubstrateInfo for one          *)
(* substrate, requests divisions and removals and calls space.update.      *)

NodePositions == {<<0, 0>>, <<1, 0>>}

\* keyword arguments of add_agent; info is the substrate_info dictionary
NodeParams(position, with_substrate_info, info) ==
    [NoParams EXCEPT !.has = {"volume", "position"}
                             \cup (IF with_substrate_info THEN {"substrate_info"} ELSE {}),
                     !.volume = 1, !.position = position, !.substrate_info = info]

\* sim.add_agent(Agent(), substrate_info={n: SubstrateInfo('flux')}, ...)
AddAgentWithInfo(position, n) ==
    /\ CanCall
    /\ Len(objects) < MaxAgents
    /\ Len(heap) < MaxInfos
    /\ Call("add_agent", Simulation_add_agent(
               [World EXCEPT !.objects = Append(@, Agent(id_count)),
                             !.id_count = @ + 1,
                             !.heap = Append(@, SubstrateInfo("flux"))],
               Len(objects) + 1,
               NodeParams(position, TRUE, [k \in {n} |-> Len(heap) + 1])))

InitNodes ==
    \/ InitWith(add_substrate(HomogeneousSpace(Capacity, 0, 0), "oxygen"), <<>>)
    \/ InitWith(add_substrate(Lattice2DSpace(0, 0), "oxygen"), <<>>)
    \/ InitWith(HomogeneousSpace(Capacity, 0, 0), <<>>)
    \/ InitWith(Lattice2DSpace(0, 0), <<>>)

NextNodes ==
    \/ \E pos \in NodePositions, si \in BOOLEAN : AddNewAgent(NodeParams(pos, si, <<>>))
    \/ \E pos \in NodePositions, n \in Range(SubstrateNames) : AddAgentWithInfo(pos, n)
    \/ \E h \in Handles, name \in {"division_pending", "remove_pending"} :
           SetAttribute(h, name, TRUE)
    \/ UpdateSpace(1)

SpecNodes == InitNodes /\ [][NextNodes]_vars

\* the held agents that carry substrate_info for substrate n
Carriers(sp, os, n) ==
    {h \in Range(sp.agents) :
        /\ has_attribute(os[h], "substrate_info")
        /\ n \in DOMAIN get_attribute(os[h], "substrate_info")}

\* the dynamic node list of every field holds exactly the carriers, each once
NodesAreCarriers(sp, os) ==
    \A n \in sp.substrates :
        /\ Range(sp.dynamic_nodes[n]) = Carriers(sp, os, n)
        /\ Cardinality(Range(sp.dynamic_nodes[n])) = Len(sp.dynamic_nodes[n])

\* C28: after every update of a space of either kind in which the agent clock
\* is due (here every update, the clock having no interval) and which
\* returns, the dynamic node list of each substrate field holds exactly the
\* held agents that carry substrate_info for that substrate, each once
DynamicNodesAreHeldCarriers ==
    [][(SpaceUpdated /\ raised' = "none") => NodesAreCarriers(space', objects')]_vars

\* the same for the lattice
DynamicNodesOnLattice ==
    [][(SpaceUpdated /\ raised' = "none" /\ space.kind = "lattice2d") =>
           NodesAreCarriers(space', objects')]_vars

\* the same for a homogeneous space that holds no agent flagged for division
\* or removal
DynamicNodesWhereNoRequest ==
    [][(SpaceUpdated /\ raised' = "none" /\ NoHeldRemoval /\ PendingInOrder = <<>>) =>
           NodesAreCarriers(space', objects')]_vars

\* a lattice update has registered a daughter and its mother, and not the
\* agent without substrate entry
DaughterRegistered ==
    /\ run.op = "space.update" /\ raised = "none"
    /\ space.kind = "lattice2d"
    /\ Len(objects) = 3
    /\ Len(space.dynamic_nodes["oxygen"]) = 2
    /\ 3 \in Range(space.dynamic_nodes["oxygen"])
    /\ Len(space.agents) = 3

----------------------------------------------------------------------------
(* Agents without substrate_info.                                          *)

\* every substrate_info entry of a held agent names a field of the space
EntriesHaveFields ==
    \A h \in Range(space.agents) :
        has_attribute(objects[h], "substrate_info") =>
            DOMAIN get_attribute(objects[h], "substrate_info") \subseteq space.substrates

\* C29: an update of a space whose agents carry substrate_info for fields of
\* the space or carry no substrate_info attribute at all completes without
\* raising an error, and removes the held agents flagged for removal
UpdateWithoutSubstrateInfo ==
    [][(SpaceUpdated /\ EntriesHaveFields) =>
           /\ raised' = "none"
           /\ \A h \in Range(space.agents) :
                  objects[h].attributes.remove_pending => h \notin Range(space'.agents)]_vars

\* the same where every held agent carries a substrate_info dictionary
UpdateWhereSubstrateInfo ==
    [][(SpaceUpdated /\ EntriesHaveFields /\ AllCarrySubstrateInfo) =>
           /\ raised' = "none"
           /\ \A h \in Range(space.agents) :
                  objects[h].attributes.remove_pending => h \notin Range(space'.agents)]_vars

\* an update has returned that removed a flagged agent and divided another
\* agent that carries a substrate entry
UpdateRemovedAndDivided ==
    /\ run.op = "space.update" /\ raised = "none"
    /\ \E h, g \in 1..Len(objects) :
           /\ objects[h].attributes.remove_pending
           /\ h \notin Range(space.agents)
           /\ objects[g].attributes.division_completed
           /\ DOMAIN get_attribute(objects[g], "substrate_info") # {}
           /\ g \in Range(space.agents)

----------------------------------------------------------------------------
(* SpecEnergy: the interaction energy kernel applied to the agents of a    *)
(* lattice on which two or three agents with binding affinity 1 or 4 were  *)
(* added at distinct cells.                                                *)

BindingAffinities == {1, 4}

EnergyParams(position, binding_affinity) ==
    [NoParams EXCEPT !.has = {"position", "binding_affinity"},
                     !.position = position, !.binding_affinity = binding_affinity]

InitEnergy ==
    \E k \in 2..MaxAgents :
    \E cs \in [1..k -> Cells], bs \in [1..k -> BindingAffinities] :
        /\ \A i, j \in 1..k : i # j => cs[i] # cs[j]
        /\ With(AddedInTurn(InitialWorld(Lattice2DSpace(0, 0)),
                            [i \in 1..k |-> EnergyParams(cs[i], bs[i])]),
                LAMBDA w :
                    /\ time = 0
                    /\ agents = w.agents
                    /\ events = w.events
                    /\ models = w.models
                    /\ history = <<>>
                    /\ space = w.space
                    /\ objects = w.objects
                    /\ heap = w.heap
                    /\ id_count = w.id_count
                    /\ run = NoRun
                    /\ log = <<>>
                    /\ init_calls = w.init_calls
                    /\ update_calls = w.update_calls
                    /\ exec_calls = w.exec_calls
                    /\ raised = "none")

\* total_interaction_energy_2d(idx, positions[idx], binding_affs, idx_array)
\* with the arrays _displacement_trials builds from the agent list; the
\* value returned is written to the log
TotalInteractionEnergy(idx) ==
    /\ CanCall
    /\ idx \in 1..Len(space.agents)
    /\ LET positions == [i \in 1..Len(space.agents) |-> Position(World, space.agents[i])]
           binding_affs == [i \in 1..Len(space.agents) |->
                               get_attribute(objects[space.agents[i]], "binding_affinity")]
       IN  Call("total_interaction_energy_2d",
                [World EXCEPT !.log = <<<<"energy", idx,
                    total_interaction_energy_2d(idx, positions[idx], binding_affs,
                                                IdxArray(positions))>>>>])

NextEnergy == \E idx \in Handles : TotalInteractionEnergy(idx)

SpecEnergy == InitEnergy /\ [][NextEnergy]_vars

\* the sum of sqrt(beta_h * beta_g) over the held agents g in the set gs
AffinitySum(h, gs) ==
    LET RECURSIVE Sum(_)
        Sum(i) == IF i = 0 THEN 0
                  ELSE Sum(i - 1)
                       + (IF i \in gs
                          THEN Sqrt(objects[h].attributes.binding_affinity
                                    * objects[i].attributes.binding_affinity)
                          ELSE 0)
    IN  Sum(Len(objects))

\* the held agents on the Moore neighbour cells of agent h
MooreNeighbourAgents(h) ==
    {g \in Range(space.agents) :
        MooreNeighbours(PositionIn(objects, h), PositionIn(objects, g))}

\* the held agents on the von Neumann neighbour cells of agent h
VonNeumannNeighbourAgents(h) ==
    {g \in Range(space.agents) :
        VonNeumannNeighbours(PositionIn(objects, h), PositionIn(objects, g))}

\* C30: the total interaction energy of an agent is the sum, over the agents
\* on its 8 Moore neighbour cells, orthogonal and diagonal alike, of
\* -sqrt(beta_i * beta_j)
EnergyOverMooreNeighbours ==
    (run.op = "total_interaction_energy_2d") =>
        log[1][3] = 0 - AffinitySum(space.agents[log[1][2]],
                                    MooreNeighbourAgents(space.agents[log[1][2]]))

\* the energy is that sum over the agents on the 4 orthogonal neighbour cells
EnergyOverOrthogonalNeighbours ==
    (run.op = "total_interaction_energy_2d") =>
        log[1][3] = 0 - AffinitySum(space.agents[log[1][2]],
                                    VonNeumannNeighbourAgents(space.agents[log[1][2]]))

\* the energy of an agent with two orthogonal neighbours has been computed
EnergyOfTwoNeighbours ==
    /\ run.op = "total_interaction_energy_2d"
    /\ Cardinality(VonNeumannNeighbourAgents(space.agents[log[1][2]])) = 2
    /\ log[1][3] < 0 - 2

----------------------------------------------------------------------------
(* SpecSubstrate: a simulation with a space of either kind (no update      *)
(* intervals) and the substrate field 'oxygen'.  The user adds agents with *)
(* a SubstrateInfo for oxygen of type flux or fixed, with a concentration  *)
(* and one rate set or none, with volume 2 or the default volume, and      *)
(* calls space.update.                                                     *)

NodeVolume == 2

Rates == {<<0, 0, 0>>, <<1, 0, 0>>, <<0, 1, 0>>, <<0, 0, 1>>}

\* SubstrateInfo(type, concentration=c, passive_rate=k[1], uptake_rate=k[2],
\* release_rate=k[3])
SubstrateInfoWith(type, c, k) ==
    [SubstrateInfo(type) EXCEPT !.concentration = Float(c, 1), !.passive_rate = k[1],
                                !.uptake_rate = k[2], !.release_rate = k[3]]

\* keyword arguments of add_agent; volume is left out for the default
SubstrateParams(position, with_volume, info) ==
    [NoParams EXCEPT !.has = {"position", "substrate_info"}
                             \cup (IF with_volume THEN {"volume"} ELSE {}),
                     !.volume = NodeVolume, !.position = position,
                     !.substrate_info = info]

\* sim.add_agent(Agent(), substrate_info={'oxygen': info}, ...)
AddNode(position, with_volume, info) ==
    /\ CanCall
    /\ Len(heap) < MaxInfos
    /\ Call("add_agent", Simulation_add_agent(
               [World EXCEPT !.objects = Append(@, Agent(id_count)),
                             !.id_count = @ + 1,
                             !.heap = Append(@, info)],
               Len(objects) + 1,
               SubstrateParams(position, with_volume, [k \in {"oxygen"} |-> Len(heap) + 1])))

InitSubstrate ==
    \/ InitWith(add_substrate(HomogeneousSpace(Capacity, 0, 0), "oxygen"), <<>>)
    \/ InitWith(add_substrate(Lattice2DSpace(0, 0), "oxygen"), <<>>)

NextSubstrate ==
    \/ \E pos \in NodePositions, v \in BOOLEAN, type \in {"flux", "fixed"}, c \in {0, 2},
          k \in Rates : AddNode(pos, v, SubstrateInfoWith(type, c, k))
    \/ \E dt \in 1..MaxDt : UpdateSpace(dt)

SpecSubstrate == InitSubstrate /\ [][NextSubstrate]_vars

\* the SubstrateInfo of agent h for oxygen
OxygenInfo(os, hp, h) == hp[get_attribute(os[h], "substrate_info").oxygen]

\* v_f * C_f + v_n * C_n for node h of the oxygen field
Mass(sp, os, hp, h) ==
    FAdd(FMul(Float(IF sp.kind = "lattice2d" THEN sp.grid_spacing * sp.grid_spacing
                    ELSE sp.volume, 1),
              FieldValue(sp, "oxygen", h, os)),
         FMul(Float(get_attribute(os[h], "volume"), 1), OxygenInfo(os, hp, h).concentration))

\* space.update has been called with agent h as the only node of the oxygen
\* field, a flux node
SingleFluxNodeUpdated(h) ==
    /\ run.op' = "space.update" /\ run.calls' = run.calls + 1
    /\ space'.dynamic_nodes.oxygen = <<h>>
    /\ OxygenInfo(objects, heap, h).type = "flux"

\* C31: in a field with D = 0 and k = 0 and a single flux node, an agent of
\* any volume the space accepts, the default volume included, one node
\* update completes and leaves v_f * C_f + v_n * C_n as it was
MassPreserved ==
    [][ \A h \in 1..Len(objects) : SingleFluxNodeUpdated(h) =>
            /\ raised' = "none"
            /\ IsFinite(Mass(space', objects', heap', h))
            /\ Mass(space', objects', heap', h) = Mass(space, objects, heap, h) ]_vars

\* the same for a node whose volume is not 0
MassPreservedWhereVolume ==
    [][ \A h \in 1..Len(objects) :
            SingleFluxNodeUpdated(h) /\ get_attribute(objects[h], "volume") # 0 =>
                /\ raised' = "none"
                /\ IsFinite(Mass(space', objects', heap', h))
                /\ Mass(space', objects', heap', h) = Mass(space, objects, heap, h) ]_vars

\* a node update has moved substrate between the field and a single node
MassMoved ==
    /\ run.op = "space.update" /\ raised = "none"
    /\ Len(space.dynamic_nodes.oxygen) = 1
    /\ OxygenInfo(objects, heap, space.dynamic_nodes.oxygen[1]).type = "flux"
    /\ get_attribute(objects[space.dynamic_nodes.oxygen[1]], "volume") # 0
    /\ FieldValue(space, "oxygen", space.dynamic_nodes.oxygen[1], objects) # Float(0, 1)

\* C32: after the node update of a lattice field the cell under every fixed
\* node holds the node's concentration, which the update has not changed
FixedNodeOverwritesCell ==
    [][ \A h \in 1..Len(objects) :
            /\ run.op' = "space.update" /\ run.calls' = run.calls + 1
            /\ space.kind = "lattice2d"
            /\ h \in Range(space'.dynamic_nodes.oxygen)
            /\ OxygenInfo(objects, heap, h).type = "fixed"
            => /\ raised' = "none"
               /\ FieldValue(space', "oxygen", h, objects')
                      = OxygenInfo(objects', heap', h).concentration
               /\ OxygenInfo(objects', heap', h).concentration
                      = OxygenInfo(objects, heap, h).concentration ]_vars

\* what the lattice field does with a fixed node: the update ends with an
\* AttributeError at the first one and changes neither the node nor its cell
FixedNodeEndsUpdate ==
    [][ \A h \in 1..Len(objects) :
            /\ run.op' = "space.update" /\ run.calls' = run.calls + 1
            /\ space.kind = "lattice2d"
            /\ h \in Range(space'.dynamic_nodes.oxygen)
            /\ OxygenInfo(objects, heap, h).type = "fixed"
            => /\ raised' = "AttributeError"
               /\ OxygenInfo(objects', heap', h).concentration
                      = OxygenInfo(objects, heap, h).concentration ]_vars

\* the homogeneous field takes the mean of its fixed nodes
FixedNodesGiveMean ==
    /\ run.op = "space.update" /\ raised = "none"
    /\ space.kind = "homogeneous"
    /\ space.concentration.oxygen = Float(1, 1)

----------------------------------------------------------------------------
(* SpecBresenham: bresenham_2d called on its own, for every pair of        *)
(* endpoints with coordinates between -MaxCoord and MaxCoord.  The log     *)
(* holds the arguments and the path returned.                              *)

MaxCoord == 3

Coords == (0 - MaxCoord)..MaxCoord

\* path = bresenham_2d(x1, y1, x2, y2)
Bresenham(x1, y1, x2, y2) ==
    /\ Idle
    /\ run.calls = 0
    /\ Call("bresenham_2d",
            [World EXCEPT !.log = <<<<"path", <<x1, y1, x2, y2>>,
                                     bresenham_2d(x1, y1, x2, y2)>>>>])

NextBresenham == \E x1, y1, x2, y2 \in Coords : Bresenham(x1, y1, x2, y2)

SpecBresenham == Init /\ [][NextBresenham]_vars

Max(a, b) == IF a < b THEN b ELSE a

\* C33: the path bresenham_2d returns has max(|dx|, |dy|) + 1 cells, starts
\* at (x1, y1) and ends at (x2, y2); consecutive cells differ by at most 1 in
\* each coordinate and no cell occurs twice
BresenhamPath ==
    run.op = "bresenham_2d" =>
        LET a == log[1][2]
            path == log[1][3]
        IN  /\ Len(path) = Max(Abs(a[3] - a[1]), Abs(a[4] - a[2])) + 1
            /\ path[1] = <<a[1], a[2]>>
            /\ path[Len(path)] = <<a[3], a[4]>>
            /\ \A i \in 1..(Len(path) - 1) :
                   /\ Abs(path[i + 1][1] - path[i][1]) <= 1
                   /\ Abs(path[i + 1][2] - path[i][2]) <= 1
            /\ \A i, j \in 1..Len(path) : path[i] = path[j] => i = j

\* the line across a 3x1 lattice, and a steep line with four cells
BresenhamPathWitness ==
    /\ run.op = "bresenham_2d"
    /\ \/ /\ log[1][2] = <<0, 0, 2, 0>>
          /\ log[1][3] = << <<0, 0>>, <<1, 0>>, <<2, 0>> >>
       \/ /\ log[1][2] = <<1, 0 - 2, 0 - 1, 1>>
          /\ Len(log[1][3]) = 4

----------------------------------------------------------------------------
(* SpecLists: a simulation with a space of either kind, installed before   *)
(* any agent is added, and a cell cycle model.  The user adds new agents   *)
(* (on the lattice also at an occupied cell), adds an agent again, removes *)
(* agents, requests removals and calls run with dt = 1.                    *)

ListPositions == {<<0, 0>>, <<1, 0>>}

NextLists ==
    \/ space.kind = "homogeneous" /\ AddNewAgent(HomogeneousParams(TRUE))
    \/ space.kind = "lattice2d"
           /\ \E pos \in ListPositions : AddNewAgent(DividingParams(pos, TRUE))
    \/ \E h \in Handles : AddAgentAgain(h, DividingParams(<<1, 0>>, TRUE))
    \/ \E h \in Handles : RemoveAgent(h)
    \/ run.count = 0 /\ \E h \in Handles : SetAttribute(h, "remove_pending", TRUE)
    \/ run.count = 0 /\ RunStart(CycleLength, 1, 0)
    \/ TickEvents
    \/ TickModels
    \/ TickSpace
    \/ TickHistory
    \/ TickAdvance

SpecLists == InitDivision /\ [][NextLists]_vars

\* C34: with the space installed before any agent is added, every add_agent,
\* remove_agent and step of run that ends without an exception leaves the
\* simulation's agent list and the space's agent list equal, element by
\* element
ListsInStep ==
    [][ agents = space.agents /\ raised' = "none" => agents' = space'.agents ]_vars

\* a run has returned after a division and a removal, with agents added
\* again and removed by the user, and the two lists hold the same two or
\* more agents in the same order
ListsInStepWitness ==
    /\ run.completed /\ raised = "none"
    /\ agents = space.agents
    /\ Len(agents) >= 2
    /\ Len(objects) > Len(agents)
    /\ \E h \in 1..Len(objects) : get_attribute(objects[h], "division_completed")

----------------------------------------------------------------------------
(* SpecCycle: a simulation with a space of either kind, whose agent clock  *)
(* has no interval or an interval of 2 ms, and a cell cycle model with an  *)
(* update interval of 0 to MaxInterval ms.  The user adds agents with a    *)
(* cell cycle length of 1 ms or CycleLength ms and calls run.              *)

CyclePositions == {<<0, 0>>, <<1, 1>>}

CycleParams(position, length) ==
    [DividingParams(position, TRUE) EXCEPT !.cellcycle_mean_length = length]

InitCycle ==
    \E dt_agent \in {0, 2}, update_interval \in 0..MaxInterval :
        \/ InitWith(HomogeneousSpace(Capacity, dt_agent, 0),
                    <<Model(1, "cellcycle", update_interval)>>)
        \/ InitWith(Lattice2DSpace(dt_agent, 0),
                    <<Model(1, "cellcycle", update_interval)>>)

NextCycle ==
    \/ /\ run.count = 0
       /\ Len(objects) < 2
       /\ \E pos \in CyclePositions, length \in {1, CycleLength} :
              AddNewAgent(CycleParams(pos, length))
    \/ \E dt_ms \in 1..MaxDt : RunStart(MaxTime, dt_ms, 0)
    \/ TickEvents
    \/ TickModels
    \/ TickSpace
    \/ TickHistory
    \/ TickAdvance

SpecCycle == InitCycle /\ [][NextCycle]_vars

Flag(os, h, name) == has_attribute(os[h], name) /\ get_attribute(os[h], name)

\* the space has divided agent h in this step
DividedInStep(h) ==
    /\ Flag(objects, h, "division_pending")
    /\ ~Flag(objects', h, "division_pending")
    /\ Flag(objects', h, "division_completed")

\* C35: with the cell cycle model and the space as the only writers of the
\* division flags, no agent has division_pending and division_completed both
\* true, at the end of a tick or within it, and the space divides an agent
\* only when the model has cleared the division_completed of its last
\* division
DivisionFlagsExclusive ==
    [][ /\ \A h \in 1..Len(objects') :
               ~(Flag(objects', h, "division_pending")
                 /\ Flag(objects', h, "division_completed"))
        /\ \A h \in 1..Len(objects) :
               DividedInStep(h) => ~Flag(objects, h, "division_completed") ]_vars

\* the end of a tick after two divisions or more: one agent has divided and
\* has not been reset yet, another one is waiting to divide
DivisionFlagsExclusiveWitness ==
    /\ run.pc = "events" /\ raised = "none"
    /\ Len(objects) >= 3
    /\ \E g, h \in 1..Len(objects) :
           /\ Flag(objects, g, "division_completed")
           /\ Flag(objects, h, "division_pending")

----------------------------------------------------------------------------
(* SpecNecrosis: a simulation with a space of either kind with the field   *)
(* 'oxygen', a cell cycle model and a toxicity model for oxygen, in either *)
(* order of registration and with update intervals of 0 or 2 ms each.  The *)
(* user adds an agent of volume 1 with an oxygen concentration of 2 and a  *)
(* cell cycle length of 1 ms or CycleLength ms, and calls run with dt = 1. *)

NecrosisParams(length, info) ==
    [SubstrateParams(<<0, 0>>, TRUE, info) EXCEPT
        !.has = @ \cup {"cellcycle_mean_length"}, !.volume = 1,
        !.cellcycle_mean_length = length]

\* sim.add_agent(Agent(), substrate_info={'oxygen': SubstrateInfo('flux',
\* concentration=2)}, cellcycle_mean_length=(length, 'ms'), ...)
AddOxygenatedAgent(length) ==
    /\ CanCall
    /\ Len(objects) < 1
    /\ Call("add_agent", Simulation_add_agent(
               [World EXCEPT !.objects = Append(@, Agent(id_count)),
                             !.id_count = @ + 1,
                             !.heap = Append(@, SubstrateInfoWith("flux", 2, <<0, 0, 0>>))],
               Len(objects) + 1,
               NecrosisParams(length, [k \in {"oxygen"} |-> Len(heap) + 1])))

InitNecrosis ==
    \E cc, tox \in {0, 2}, sp \in {add_substrate(HomogeneousSpace(Capacity, 0, 0), "oxygen"),
                                  add_substrate(Lattice2DSpace(0, 0), "oxygen")} :
        \/ InitWith(sp, <<Model(1, "cellcycle", cc), Model(2, "toxicity", tox)>>)
        \/ InitWith(sp, <<Model(1, "toxicity", tox), Model(2, "cellcycle", cc)>>)

NextNecrosis ==
    \/ \E length \in {1, CycleLength} : AddOxygenatedAgent(length)
    \/ run.count = 0 /\ RunStart(MaxTime, 1, 0)
    \/ TickEvents
    \/ TickModels
    \/ TickSpace
    \/ TickHistory
    \/ TickAdvance

SpecNecrosis == InitNecrosis /\ [][NextNecrosis]_vars

Necrotic(os, h) == has_attribute(os[h], "state") /\ get_attribute(os[h], "state") = "necrotic"

\* C36: once the toxicity model has marked an agent necrotic, its
\* cellcycle_is_active stays false and the space does not divide it again,
\* whatever the order of the models and their update intervals, also when
\* the agent had divided just before
NecroticStaysInactive ==
    [][ \A h \in 1..Len(objects) :
            Necrotic(objects, h) =>
                /\ ~Flag(objects', h, "cellcycle_is_active")
                /\ ~DividedInStep(h) ]_vars

\* the same for an agent whose division_completed the cell cycle model has
\* cleared
NecroticStaysInactiveWhereCleared ==
    [][ \A h \in 1..Len(objects) :
            Necrotic(objects, h) /\ ~Flag(objects, h, "division_completed")
            /\ ~Flag(objects, h, "cellcycle_is_active") =>
                /\ ~Flag(objects', h, "cellcycle_is_active")
                /\ ~Flag(objects', h, "division_completed")
                /\ ~DividedInStep(h) ]_vars

\* a necrotic agent waits for its next division
NecroticDividesAgain ==
    \E h \in 1..Len(objects) :
        /\ Necrotic(objects, h)
        /\ Flag(objects, h, "cellcycle_is_active")
        /\ Flag(objects, h, "division_pending")

----------------------------------------------------------------------------
(* SpecTime: a simulation with a space of either kind with the field       *)
(* 'oxygen', whose substrate clock has an interval of 0 to MaxInterval ms, *)
(* and a cell cycle model with such an interval.  The user adds agents     *)
(* with a flux or fixed SubstrateInfo for oxygen, with volume 2 or the     *)
(* default volume, and a cell cycle longer than the runs, and calls run.   *)

TimedParams(position, with_volume, info) ==
    [SubstrateParams(position, with_volume, info) EXCEPT
        !.has = @ \cup {"cellcycle_mean_length"},
        !.cellcycle_mean_length = 2 * MaxTime + 2 * MaxDt + 1]

AddTimedAgent(position, with_volume, type) ==
    /\ CanCall
    /\ Len(heap) < MaxInfos
    /\ Call("add_agent", Simulation_add_agent(
               [World EXCEPT !.objects = Append(@, Agent(id_count)),
                             !.id_count = @ + 1,
                             !.heap = Append(@, SubstrateInfo(type))],
               Len(objects) + 1,
               TimedParams(position, with_volume, [k \in {"oxygen"} |-> Len(heap) + 1])))

InitTime ==
    \E dt_substrate, update_interval \in 0..MaxInterval :
        \/ InitWith(add_substrate(HomogeneousSpace(Capacity, 0, dt_substrate), "oxygen"),
                    <<Model(1, "cellcycle", update_interval)>>)
        \/ InitWith(add_substrate(Lattice2DSpace(0, dt_substrate), "oxygen"),
                    <<Model(1, "cellcycle", update_interval)>>)

NextTime ==
    \/ /\ run.count = 0
       /\ \E pos \in NodePositions, v \in BOOLEAN, type \in {"flux", "fixed"} :
              AddTimedAgent(pos, v, type)
    \/ \E dt_ms \in 1..MaxDt : RunStart(MaxTime, dt_ms, 0)
    \/ TickEvents
    \/ TickModels
    \/ TickSpace
    \/ TickHistory
    \/ TickAdvance

SpecTime == InitTime /\ [][NextTime]_vars

\* the sum of the elapsed times that the call leading to w has passed to the
\* updates recorded as <<kind, id, h>>
Handed(w, kind, id, h) ==
    LET RECURSIVE Sum(_)
        Sum(k) == IF k = 0 THEN 0
                  ELSE Sum(k - 1) + (IF <<w.handed[k][1], w.handed[k][2], w.handed[k][3]>>
                                          = <<kind, id, h>>
                                     THEN w.handed[k][4] ELSE 0)
    IN  Sum(Len(w.handed))

\* the step has led to the world w
LedTo(w) ==
    /\ w.agents = agents' /\ w.models = models' /\ w.space = space'
    /\ w.objects = objects' /\ w.heap = heap' /\ w.raised = raised'

\* the update of the models in this tick keeps the time of every model
\* clock, for every agent of the simulation
ModelTimeKept(w) ==
    \A i \in 1..Len(models), h \in Range(agents) :
        Handed(w, "model", models[i].id, h) + w.models[i].update_info.elapsed_time
            = models[i].update_info.elapsed_time + run.dt

\* the update of the space in this tick keeps the time of the substrate
\* clock, for every field
FieldTimeKept(w) ==
    \A n \in space.substrates :
        Handed(w, "field", n, 0) + w.space.substrate_update_info.elapsed_time
            = space.substrate_update_info.elapsed_time + run.dt

\* C37: in every tick of a run, the elapsed time handed to the update of a
\* substrate field, or seen by update_attributes of a model, and the elapsed
\* time the clock shows afterwards add up to the elapsed time the clock
\* showed before and the dt of the tick: no time is lost or handed out
\* twice, for any interval and any dt
TimeKept ==
    [][ /\ run.pc = "models" =>
               \A d \in Draws :
                   LedTo(Simulation_update_models([World EXCEPT !.draws = d], run.dt))
                   => ModelTimeKept(Simulation_update_models([World EXCEPT !.draws = d],
                                                             run.dt))
        /\ run.pc = "space" =>
               \A w \in Space_update(World, run.dt) : LedTo(w) => FieldTimeKept(w) ]_vars

\* the same for the ticks that end without an exception
TimeKeptWhereNoException ==
    [][ /\ run.pc = "models" =>
               \A d \in Draws :
                   LedTo(Simulation_update_models([World EXCEPT !.draws = d], run.dt))
                   /\ raised' = "none"
                   => ModelTimeKept(Simulation_update_models([World EXCEPT !.draws = d],
                                                             run.dt))
        /\ run.pc = "space" =>
               \A w \in Space_update(World, run.dt) :
                   LedTo(w) /\ raised' = "none" => FieldTimeKept(w) ]_vars

\* in the second run, both clocks hold time that is not a multiple of their
\* intervals, with agents in the simulation
TimeCarriedOver ==
    /\ run.count = 2 /\ run.pc = "models" /\ raised = "none"
    /\ Len(agents) > 0
    /\ models[1].update_info.update_interval = 3
    /\ models[1].update_info.elapsed_time = 2
    /\ space.substrate_update_info.update_interval = 3
    /\ space.substrate_update_info.elapsed_time = 2

----------------------------------------------------------------------------
(* SpecEvents: a simulation without a space.  The user adds and removes    *)
(* agents and registers events whose handlers do nothing, remove an agent  *)
(* (ValueError when the agent is not in the simulation) or register a      *)
(* further event; then run is called up to MaxRuns times.                  *)

NextEvents ==
    \/ run.count = 0 /\ AddNewAgent(NoParams)
    \/ run.count = 0 /\ \E h \in Handles : RemoveAgent(h)
    \/ run.count = 0 /\ \E due \in 0..MaxDue : AddEvent(due, "nothing", 0)
    \/ run.count = 0 /\ \E due \in 0..MaxDue, h \in 1..Len(objects) :
                            AddEvent(due, "remove_agent", h)
    \/ run.count = 0 /\ \E due \in 0..MaxDue, later \in 0..MaxDue :
                            AddEvent(due, "add_event", later)
    \/ \E time_ms \in 1..MaxTime, dt_ms \in 1..MaxDt : RunStart(time_ms, dt_ms, 0)
    \/ TickEvents
    \/ TickModels
    \/ TickSpace
    \/ TickHistory
    \/ TickAdvance

SpecEvents == Init /\ [][NextEvents]_vars

\* the events a handler has registered during the current run: the user
\* registers events before the first run only
RegisteredInRun(evs) ==
    IF run.count = 0 THEN {} ELSE Listed(evs) \ Listed(run.events0)

----------------------------------------------------------------------------
(* The interior of the path of a division (SpecTrial, SpecPush).           *)

\* the step is a division trial of h that finds an empty cell within the
\* displacement limit of h
DivisionTried(h) ==
    /\ DivisionTrial(h)
    /\ EmptyWithinLimit(h) # {}

\* the path from the position of h to the cell t
PathTo(h, t) ==
    bresenham_2d(PositionIn(objects, h)[1], PositionIn(objects, h)[2], t[1], t[2])

\* after the step no cell of the path is empty, but for the cell next to
\* the mother's when no daughter was added
NoGapLeft(path) ==
    \A i \in 1..Len(path) :
        space'.agent_layer[path[i]] = 0 => i = 2 /\ Len(objects') = Len(objects)

\* C39: in a division on the lattice every cell of the path strictly between
\* the mother's cell and any nearest empty cell is occupied when the push
\* begins; the push never reads an empty cell (which would end the update
\* with AttributeError), and after the division no cell of the path is empty
\* other than the one handed to the daughter
InteriorOccupied ==
    [][\A h \in Handles :
          DivisionTried(h) =>
            /\ \A t \in Nearest(h) :
                   \A c \in Interior(PathTo(h, t)) : space.agent_layer[c] # 0
            /\ raised' # "AttributeError"
            /\ \E t \in Nearest(h) : NoGapLeft(PathTo(h, t))]_vars

\* the same for the divisions of a mother that is on its cell of the layer
InteriorOccupiedWhereOnCell ==
    [][\A h \in Handles :
          DivisionTried(h) /\ space.agent_layer[PositionIn(objects, h)] # 0 =>
            /\ \A t \in Nearest(h) :
                   \A c \in Interior(PathTo(h, t)) : space.agent_layer[c] # 0
            /\ raised' # "AttributeError"
            /\ \E t \in Nearest(h) : NoGapLeft(PathTo(h, t))]_vars

\* a division has pushed the agent of the interior cell of a path of three
\* cells to the target and handed the cell next to the mother to the daughter
InteriorOccupiedWitness ==
    /\ run.op = "division_trial" /\ raised = "none"
    /\ log = <<<<"moved", 1, 0>>>>
    /\ \E h \in Range(space.agents) :
           /\ get_attribute(objects[h], "division_completed")
           /\ \E t \in Cells :
                  /\ Len(PathTo(h, t)) = 3
                  /\ space.agent_layer[PathTo(h, t)[2]] = Len(objects)
                  /\ space.agent_layer[t] \notin {0, h, Len(objects)}
                  /\ PositionIn(objects, space.agent_layer[t]) = t

----------------------------------------------------------------------------
(* SpecKernel: the Bresenham kernel of the core package                    *)
(* (core/_numba_funcs.py) called on its own, for every pair of endpoints   *)
(* with coordinates between -MaxCoord and MaxCoord.  The log holds the     *)
(* arguments and the path returned.                                        *)

\* the path is an array of max(dx, dy) + 1 rows of zeros whose first row is
\* (x1, y1); the loop runs while both coordinates differ from the target's
\* and writes one row per pass; path[1] is the code's path[0]
numba_funcs_bresenham_2d(x1, y1, x2, y2) ==
    LET dx == Abs(x2 - x1)
        dy == Abs(y2 - y1)
        size == Max(dx, dy) + 1
        xs == IF x2 > x1 THEN 1 ELSE 0 - 1
        ys == IF y2 > y1 THEN 1 ELSE 0 - 1
        RECURSIVE Loop(_, _, _, _, _)
        Loop(x, y, error, idx, path) ==
            IF ~(x # x2 /\ y # y2) THEN path
            ELSE LET e == 2 * error
                     step_x == e >= dy /\ x # x2
                     error_x == IF step_x THEN error + dy ELSE error
                     x_new == IF step_x THEN x + xs ELSE x
                     step_y == e <= dx /\ y # y2
                     error_y == IF step_y THEN error_x + dx ELSE error_x
                     y_new == IF step_y THEN y + ys ELSE y
                 IN  Loop(x_new, y_new, error_y, idx + 1,
                          [path EXCEPT ![idx + 1] = <<x_new, y_new>>])
    IN  Loop(x1, y1, dx + dy, 1,
             [i \in 1..size |-> IF i = 1 THEN <<x1, y1>> ELSE <<0, 0>>])

\* SimulationSpace2D.division_trial: the cells between which the push loop
\* moves agents, `path[i]` to `path[i + 1]` for i = size - 2 down to 1
PushedBetween(path) ==
    IF Len(path) > 2
    THEN {<<path[i], path[i + 1]>> : i \in 2..(Len(path) - 1)}
    ELSE {}

\* path = _numba_funcs.bresenham_2d(x1, y1, x2, y2)
Kernel(x1, y1, x2, y2) ==
    /\ Idle
    /\ run.calls = 0
    /\ Call("_numba_funcs.bresenham_2d",
            [World EXCEPT !.log = <<<<"path", <<x1, y1, x2, y2>>,
                                     numba_funcs_bresenham_2d(x1, y1, x2, y2)>>>>])

NextKernel == \E x1, y1, x2, y2 \in Coords : Kernel(x1, y1, x2, y2)

SpecKernel == Init /\ [][NextKernel]_vars

\* the cell c is a cell of the line from (a[1], a[2]) to (a[3], a[4]): it is
\* between the endpoints and at most half a cell off the line
OnLine(c, a) ==
    /\ Abs(c[1] - a[1]) + Abs(a[3] - c[1]) = Abs(a[3] - a[1])
    /\ Abs(c[2] - a[2]) + Abs(a[4] - c[2]) = Abs(a[4] - a[2])
    /\ 2 * Abs((c[1] - a[1]) * (a[4] - a[2]) - (c[2] - a[2]) * (a[3] - a[1]))
           <= Max(Abs(a[3] - a[1]), Abs(a[4] - a[2]))

\* C40: for all integer endpoints, axis-aligned lines included, the path of
\* core/_numba_funcs.bresenham_2d starts at (x1, y1), ends at (x2, y2) and
\* has every entry filled with a cell of the line, so that the division
\* trial pushes agents only between cells of that line
KernelPath ==
    run.op = "_numba_funcs.bresenham_2d" =>
        LET a == log[1][2]
            path == log[1][3]
        IN  /\ path[1] = <<a[1], a[2]>>
            /\ path[Len(path)] = <<a[3], a[4]>>
            /\ \A i \in 1..Len(path) : OnLine(path[i], a)
            /\ \A m \in PushedBetween(path) : OnLine(m[1], a) /\ OnLine(m[2], a)

\* what the kernel returns: max(|dx|, |dy|) + 1 entries, the first one
\* (x1, y1); every other entry is a cell of the row y1, one step further
\* towards x2 than the entry before, or is left at (0, 0)
KernelPathAlongRow ==
    run.op = "_numba_funcs.bresenham_2d" =>
        LET a == log[1][2]
            path == log[1][3]
        IN  /\ Len(path) = Max(Abs(a[3] - a[1]), Abs(a[4] - a[2])) + 1
            /\ path[1] = <<a[1], a[2]>>
            /\ \A i \in 2..Len(path) :
                   \/ path[i] = <<0, 0>>
                   \/ /\ path[i][2] = a[2]
                      /\ Abs(path[i][1] - a[1]) = i - 1
                      /\ Abs(a[3] - path[i][1]) = Abs(a[3] - a[1]) - (i - 1)

\* the path of the horizontal line from (1, 1) to (3, 1) is (1, 1) followed
\* by two entries left at (0, 0)
KernelPathUnfilled ==
    /\ run.op = "_numba_funcs.bresenham_2d"
    /\ log[1][2] = <<1, 1, 3, 1>>
    /\ log[1][3] = << <<1, 1>>, <<0, 0>>, <<0, 0>> >>
====
